---- MODULE Spec2Model ----
(***************************************************************************)
(* Huefy SDK (teracrafts/huefy-sdk-js): the retry loops of HttpClient,     *)
(* GrpcClient and KernelClient, the error taxonomy of errors.ts and the    *)
(* classification functions that feed the retry decision.                  *)
(*                                                                         *)
(* Conventions.  A JavaScript string that the code only inspects with      *)
(* includes() is a Text: the set of the tokens it contains.  The empty     *)
(* string is {}, concatenation is union, s.includes(k) is k \in s.  An     *)
(* optional configuration value is {} (absent) or {v}.                     *)
(***************************************************************************)
EXTENDS Integers, Sequences, FiniteSets, TLC

VARIABLES
    transport,   \* "http" | "grpc" | "kernel": which client class was constructed
    config,      \* the HuefyConfig handed to the constructor
    client,      \* the constructed client's fields (ok = FALSE: the constructor threw)
    pc,          \* position of the one call: idle, call, sleep, returned, threw
    callTimeout, \* HttpClient.request: the resolved per-attempt timeout
    attempt,     \* the loop variable `attempt`
    lastError,   \* the local `lastError`
    exchanges,   \* number of underlying exchanges started (fetch / RPC / spawn)
    sleeps,      \* the delays handed to sleep(), in order
    labels,      \* per settled attempt: "success", "retryable", "nonretryable"
    lastRaw,     \* what the transport delivered on the last settled attempt
    outcome,     \* what the caller observes: a response or a thrown value
    cin,         \* classification run: the input handed to the function
    cout,        \* classification run: what the function produced
    attempts,    \* per attempt: its timer, its child process, its buffers, its promise
    calls,       \* concurrent calls on one HttpClient: the locals of each request()
    retryableStatusCodes,
                 \* the elements of the array that DEFAULT_RETRY_CONFIG, this.retryConfig
                 \* and every getRetryConfig() result refer to
    returned,    \* the object getRetryConfig() handed to the caller, if any
    callbacks,   \* HuefyClient: the callbacks object given to the constructor
    sends,       \* HuefyClient: per sendEmail invocation, where it stands and
                 \* what it has invoked and produced
    bulk         \* HuefyClient: the sendBulkEmails invocation, if any

vars == <<transport, config, client, pc, callTimeout, attempt, lastError,
          exchanges, sleeps, labels, lastRaw, outcome, cin, cout, attempts,
          calls, retryableStatusCodes, returned, callbacks, sends, bulk>>

\* the state of the HuefyClient wrapper
huefyVars == <<callbacks, sends, bulk>>

\* the variables the retry loop itself does not touch
sideVars == <<attempts, calls, retryableStatusCodes, returned, huefyVars>>

---------------------------------------------------------------------------
(* Bounds of the model *)

\* the largest retryAttempts a caller passes to the constructor
MaxRetryAttempts == 2

---------------------------------------------------------------------------
(* JavaScript values *)

Undefined == {"<undefined>"}
UndefinedCode == "<undefined>"
NoStatus == 0
NoRpcCode == -1

\* x || y on Texts
OrText(x, y) == IF x = {} \/ x = Undefined THEN y ELSE x
\* x || y on code strings
OrCode(x, y) == IF x = "" \/ x = UndefinedCode THEN y ELSE x
\* opt || d on optional numbers (undefined and 0 are falsy)
OrNumber(opt, d) ==
    IF opt = {} THEN d
    ELSE LET v == CHOOSE x \in opt : TRUE IN IF v = 0 THEN d ELSE v

Min(a, b) == IF a <= b THEN a ELSE b

RECURSIVE Pow(_, _)
Pow(b, e) == IF e <= 0 THEN 1 ELSE b * Pow(b, e - 1)

\* the `details` property of an error or of a response payload
DUndefined == [tag |-> "undefined", obj |-> <<>>, text |-> {}]
DObject(f) == [tag |-> "object", obj |-> f, text |-> {}]
DNumber == [tag |-> "number", obj |-> <<>>, text |-> {}]
DString(t) == [tag |-> "string", obj |-> <<>>, text |-> t]

\* {...d}: the own enumerable properties of d
Spread(d) == IF d.tag = "object" THEN d.obj ELSE <<>>
\* {...f, ...g}
Merge(f, g) ==
    [k \in (DOMAIN f) \cup (DOMAIN g) |-> IF k \in DOMAIN g THEN g[k] ELSE f[k]]
\* d?.k on a details value
Prop(d, k) == IF d.tag = "object" /\ k \in DOMAIN d.obj THEN d.obj[k] ELSE Undefined

---------------------------------------------------------------------------
(* errors.ts: the error classes *)

HuefyClasses ==
    {"HuefyError", "AuthenticationError", "TemplateNotFoundError",
     "InvalidTemplateDataError", "InvalidRecipientError", "ProviderError",
     "RateLimitError", "NetworkError", "TimeoutError", "ValidationError"}

\* any thrown value; cls "null" is the value null
Thrown(cls, message, code, statusCode, details, rpcCode) ==
    [cls |-> cls, message |-> message, code |-> code, statusCode |-> statusCode,
     details |-> details, rpcCode |-> rpcCode]

Null == Thrown("null", Undefined, UndefinedCode, NoStatus, DUndefined, NoRpcCode)

\* new Error(message), new TypeError(message), an AbortError, a thrown non-Error
PlainError(cls, message) ==
    Thrown(cls, message, UndefinedCode, NoStatus, DUndefined, NoRpcCode)

HuefyErrorAs(cls, message, code, statusCode, details) ==
    Thrown(cls,
           IF message = Undefined THEN {} ELSE message,
           IF code = UndefinedCode THEN "UNKNOWN_ERROR" ELSE code,
           statusCode, details, NoRpcCode)

HuefyError(message, code, statusCode, details) ==
    HuefyErrorAs("HuefyError", message, code, statusCode, details)

AuthenticationError(message, details) ==
    HuefyErrorAs("AuthenticationError",
                 IF message = Undefined
                 THEN {"Invalid or missing API key", "API key"} ELSE message,
                 "INVALID_API_KEY", 401, details)

\* a constructor whose own template_key overrides the one in the details
TemplateNotFoundErrorKeyLast(templateKey, details) ==
    HuefyErrorAs("TemplateNotFoundError",
                 {"Template '' not found"} \cup (templateKey \ Undefined),
                 "TEMPLATE_NOT_FOUND", 404,
                 DObject(Merge(Spread(details),
                               [k \in {"template_key"} |-> templateKey])))

TemplateNotFoundError(templateKey, details) ==
    HuefyErrorAs("TemplateNotFoundError",
                 {"Template '' not found"} \cup (templateKey \ Undefined),
                 "TEMPLATE_NOT_FOUND", 404,
                 DObject(Merge([k \in {"template_key"} |-> templateKey],
                               Spread(details))))

InvalidTemplateDataError(message, details) ==
    HuefyErrorAs("InvalidTemplateDataError",
                 IF message = Undefined
                 THEN {"Invalid template data", "template"} ELSE message,
                 "INVALID_TEMPLATE_DATA", 400, details)

InvalidRecipientError(recipient, details) ==
    HuefyErrorAs("InvalidRecipientError",
                 {"Invalid recipient email: "} \cup (recipient \ Undefined),
                 "INVALID_RECIPIENT", 400,
                 DObject(Merge([k \in {"recipient"} |-> recipient],
                               Spread(details))))

ProviderError(message, details) ==
    HuefyErrorAs("ProviderError",
                 IF message = Undefined THEN {"Email provider error"} ELSE message,
                 "PROVIDER_ERROR", 500, details)

RateLimitError(message, details) ==
    HuefyErrorAs("RateLimitError",
                 IF message = Undefined THEN {"Rate limit exceeded"} ELSE message,
                 "RATE_LIMIT_EXCEEDED", 429, details)

NetworkError(message, cause) ==
    HuefyErrorAs("NetworkError",
                 IF message = Undefined THEN {"Network error"} ELSE message,
                 "NETWORK_ERROR", NoStatus,
                 DObject([k \in {"cause"} |-> cause]))

TimeoutError(timeout) ==
    HuefyErrorAs("TimeoutError", {"Request timed out after ms"},
                 "TIMEOUT_ERROR", NoStatus,
                 DObject([k \in {"timeout"} |-> timeout]))

ValidationError(message, details) ==
    HuefyErrorAs("ValidationError",
                 IF message = Undefined THEN {"Validation error"} ELSE message,
                 "VALIDATION_ERROR", 400, details)

\* error instanceof HuefyError
InstanceOfHuefyError(e) == e.cls \in HuefyClasses
\* error instanceof Error
InstanceOfError(e) == e.cls \in HuefyClasses \cup {"Error", "TypeError", "AbortError"}

\* the taxonomy kind an error carries: every class fixes its code, so the kind
\* is read off the code
KindOf(e) ==
    CASE e.code = "INVALID_API_KEY" -> "Authentication"
      [] e.code = "TEMPLATE_NOT_FOUND" -> "TemplateNotFound"
      [] e.code = "INVALID_TEMPLATE_DATA" -> "InvalidTemplateData"
      [] e.code = "INVALID_RECIPIENT" -> "InvalidRecipient"
      [] e.code = "PROVIDER_ERROR" -> "Provider"
      [] e.code = "RATE_LIMIT_EXCEEDED" -> "RateLimit"
      [] e.code = "NETWORK_ERROR" -> "Network"
      [] e.code = "TIMEOUT_ERROR" -> "Timeout"
      [] e.code = "VALIDATION_ERROR" -> "Validation"
      [] e.code = "INTERNAL_ERROR" -> "Internal"
      [] OTHER -> "Unknown"

---------------------------------------------------------------------------
(* errors.ts: createErrorFromResponse, isHuefyError, isRetryableError *)

\* a value or a raised exception
Returns(v) == [raised |-> FALSE, val |-> v]
Raises(e) == [raised |-> TRUE, val |-> e]

\* data is what response.json() produced: shape "null", "primitive" or "object"
createErrorFromResponse(data, statusCode) ==
    IF data.shape = "null"
    THEN Raises(PlainError("TypeError", {"Cannot read properties of null"}))
    ELSE Returns(
        CASE data.code = "INVALID_API_KEY" ->
                AuthenticationError(data.error, data.details)
          [] data.code = "TEMPLATE_NOT_FOUND" ->
                TemplateNotFoundError(
                    OrText(Prop(data.details, "template_key"), {"unknown"}),
                    data.details)
          [] data.code = "INVALID_TEMPLATE_DATA" ->
                InvalidTemplateDataError(data.error, data.details)
          [] data.code = "INVALID_RECIPIENT" ->
                InvalidRecipientError(
                    OrText(Prop(data.details, "recipient"), {"unknown"}),
                    data.details)
          [] data.code = "PROVIDER_ERROR" ->
                ProviderError(data.error, data.details)
          [] data.code = "RATE_LIMIT_EXCEEDED" ->
                RateLimitError(data.error, data.details)
          [] OTHER ->
                HuefyError(data.error, data.code, statusCode, data.details))

isHuefyError(error) == error.cls \in HuefyClasses

\* a predicate that retries every 4xx instead of 429 alone
isRetryableErrorAny4xx(error) ==
    IF ~isHuefyError(error) THEN FALSE
    ELSE IF error.cls \in {"NetworkError", "TimeoutError"} THEN TRUE
    ELSE error.statusCode # 0 /\ error.statusCode >= 400

isRetryableError(error) ==
    IF ~isHuefyError(error) THEN FALSE
    ELSE IF error.cls \in {"NetworkError", "TimeoutError"} THEN TRUE
    ELSE IF error.statusCode # 0 /\ error.statusCode >= 500 THEN TRUE
    ELSE IF error.statusCode # 0 /\ error.statusCode >= 400 /\ error.statusCode < 500
         THEN error.statusCode = 429
    ELSE FALSE

---------------------------------------------------------------------------
(* The constructors: HttpClient, GrpcClient, KernelClient *)

DEFAULT_RETRY_CONFIG ==
    [maxAttempts |-> 3, initialDelay |-> 1000, backoffMultiplier |-> 2,
     maxDelay |-> 10000]

\* retryableStatusCodes of the gRPC default: UNAVAILABLE, INTERNAL, RESOURCE_EXHAUSTED
GrpcRetryableStatusCodes == {14, 13, 8}
\* retryableStatusCodes of the HTTP default
HttpRetryableStatusCodes == {429, 500, 502, 503, 504}

\* the array literal in the DEFAULT_RETRY_CONFIG of the client's module
DefaultRetryableStatusCodes(t) ==
    IF t = "http" THEN HttpRetryableStatusCodes ELSE GrpcRetryableStatusCodes

RetryConfigOf(cfg) ==
    [maxAttempts |-> OrNumber(cfg.retryAttempts, DEFAULT_RETRY_CONFIG.maxAttempts),
     initialDelay |-> OrNumber(cfg.retryDelay, DEFAULT_RETRY_CONFIG.initialDelay),
     backoffMultiplier |-> DEFAULT_RETRY_CONFIG.backoffMultiplier,
     maxDelay |-> DEFAULT_RETRY_CONFIG.maxDelay]

\* an apiKey that is truthy and whose typeof is not 'string'
NotAString == {"<not a string>"}

ConstructionFailed(e) ==
    [ok |-> FALSE, timeout |-> 0, retryConfig |-> DEFAULT_RETRY_CONFIG, error |-> e]

\* the part the three constructors share: field assignments, then validation
ConstructFields(cfg) ==
    LET timeout == OrNumber(cfg.timeout, 30000) IN
    IF cfg.apiKey = {} \/ cfg.apiKey = {""} \/ cfg.apiKey = NotAString
    THEN ConstructionFailed(
             HuefyError({"API key is required and must be a string", "API key"},
                        "INVALID_CONFIG", NoStatus, DUndefined))
    ELSE IF timeout < 0
    THEN ConstructionFailed(
             HuefyError({"Timeout must be a positive number"},
                        "INVALID_CONFIG", NoStatus, DUndefined))
    ELSE [ok |-> TRUE, timeout |-> timeout, retryConfig |-> RetryConfigOf(cfg),
          error |-> Null]

HttpClientConstructor(cfg) == ConstructFields(cfg)

\* GrpcClient: initializeGrpcClient wraps every failure in GRPC_INIT_ERROR
GrpcClientConstructor(cfg) ==
    LET c == ConstructFields(cfg) IN
    IF c.ok /\ ~cfg.protoLoads
    THEN ConstructionFailed(
             HuefyError({"Failed to initialize gRPC client: "},
                        "GRPC_INIT_ERROR", NoStatus, DUndefined))
    ELSE c

\* KernelClient: getKernelBinaryPath throws on an unsupported platform
KernelClientConstructor(cfg) ==
    LET c == ConstructFields(cfg) IN
    IF c.ok /\ cfg.platform \notin {"darwin", "linux", "win32"}
    THEN ConstructionFailed(
             HuefyError({"Unsupported platform: "},
                        "UNSUPPORTED_PLATFORM", NoStatus, DUndefined))
    ELSE c

---------------------------------------------------------------------------
(* http.ts: HttpClient.makeRequest, one attempt *)

\* what fetch() and response.json() can deliver
JsonBody(shape, error, code, details) ==
    [shape |-> shape, error |-> error, code |-> code, details |-> details]
NoBody == JsonBody("none", Undefined, UndefinedCode, DUndefined)
FetchResponse(status, body) ==
    [type |-> "response", status |-> status, body |-> body, err |-> Null]
FetchRejection(e) ==
    [type |-> "reject", status |-> 0, body |-> NoBody, err |-> e]

ResponseOk(status) == status >= 200 /\ status <= 299

\* a catch block that looks for the wrong error name
MakeRequestCatchWrongAbortName(error, timeout, thisTimeout) ==
    IF InstanceOfError(error) /\ error.cls = "TimeoutError"
    THEN TimeoutError(OrNumber({timeout}, thisTimeout))
    ELSE IF error.cls = "TypeError"
            \/ (InstanceOfError(error) /\ "fetch" \in error.message)
    THEN NetworkError({"Network error: "} \cup error.message, error.message)
    ELSE IF InstanceOfHuefyError(error)
    THEN error
    ELSE HuefyError({"Unexpected error: "} \cup error.message,
                    "UNEXPECTED_ERROR", NoStatus, DUndefined)
\* the catch block of makeRequest (http.ts 191-215)
MakeRequestCatch(error, timeout, thisTimeout) ==
    IF InstanceOfError(error) /\ error.cls = "AbortError"
    THEN TimeoutError(OrNumber({timeout}, thisTimeout))
    ELSE IF error.cls = "TypeError"
            \/ (InstanceOfError(error) /\ "fetch" \in error.message)
    THEN NetworkError({"Network error: "} \cup error.message, error.message)
    ELSE IF InstanceOfHuefyError(error)
    THEN error
    ELSE HuefyError({"Unexpected error: "} \cup error.message,
                    "UNEXPECTED_ERROR", NoStatus, DUndefined)

makeRequest(fo, timeout, thisTimeout) ==
    IF fo.type = "reject"
    THEN Raises(MakeRequestCatch(fo.err, timeout, thisTimeout))
    ELSE IF fo.body.shape = "invalid"
    THEN Raises(MakeRequestCatch(
             HuefyError({"Failed to parse response as JSON"}, "INVALID_RESPONSE",
                        fo.status, DUndefined),
             timeout, thisTimeout))
    ELSE IF ~ResponseOk(fo.status)
    THEN Raises(MakeRequestCatch(createErrorFromResponse(fo.body, fo.status).val,
                                 timeout, thisTimeout))
    ELSE Returns([data |-> fo.body, status |-> fo.status])

---------------------------------------------------------------------------
(* The retry loops *)

\* a backoff whose exponent is the attempt number itself
BackoffDelayOffByOne(rc, att) ==
    Min(rc.initialDelay * Pow(rc.backoffMultiplier, att), rc.maxDelay)
\* Math.min(initialDelay * Math.pow(backoffMultiplier, attempt - 1), maxDelay)
BackoffDelay(rc, att) ==
    Min(rc.initialDelay * Pow(rc.backoffMultiplier, att - 1), rc.maxDelay)

NoOutcome == [how |-> "pending", val |-> Null]
ReturnedTo(v) == [how |-> "returned", val |-> v]
ThrownTo(e) == [how |-> "threw", val |-> e]

\* `for (let attempt = 1; attempt <= maxAttempts; ...)`: the loop test
LoopContinues(att, rc) == att <= rc.maxAttempts
\* a loop that gives up one attempt early
LastAttemptOneEarly(att, rc) == att >= rc.maxAttempts - 1
\* `if (attempt === maxAttempts) break`
LastAttempt(att, rc) == att = rc.maxAttempts

---------------------------------------------------------------------------
(* grpc-client.ts: one RPC, isRetryableGrpcError, convertGrpcError *)

\* the error a failed RPC hands to the callback: a numeric status code, a
\* `details` string and a message
ServiceError(rpcCode, detailsText, message) ==
    Thrown("ServiceError", message, UndefinedCode, NoStatus, DString(detailsText),
           rpcCode)

\* executeGrpcCall: the callback's (error, response) settles the promise
executeGrpcCall(go) ==
    IF go.type = "reject" THEN Raises(go.err)
    ELSE Returns([data |-> go.body, status |-> go.status])

isRetryableGrpcError(error) ==
    IF error.cls = "null" \/ error.rpcCode = NoRpcCode THEN FALSE
    ELSE error.rpcCode \in retryableStatusCodes

\* a conversion that takes UNAVAILABLE for a connection failure
convertGrpcErrorUnavailableAsNetwork(error, thisTimeout) ==
    IF error.cls = "null"
    THEN HuefyError({"Unknown error occurred"}, "UNKNOWN_ERROR", NoStatus, DUndefined)
    ELSE
    LET code == error.rpcCode
        message == OrText(error.details.text,
                          OrText(error.message, {"Unknown gRPC error"}))
    IN  CASE code = 3 -> ValidationError(message, DUndefined)
          [] code = 16 -> AuthenticationError(message, DUndefined)
          [] code = 7 -> AuthenticationError(message, DUndefined)
          [] code = 5 -> TemplateNotFoundError(message, DUndefined)
          [] code = 8 -> RateLimitError(message, DNumber)
          [] code = 4 -> TimeoutError(thisTimeout)
          [] code = 13 -> HuefyError(message, "INTERNAL_ERROR", NoStatus, DUndefined)
          [] OTHER -> NetworkError({"gRPC error (): "} \cup message, Undefined)
convertGrpcError(error, thisTimeout) ==
    IF error.cls = "null"
    THEN HuefyError({"Unknown error occurred"}, "UNKNOWN_ERROR", NoStatus, DUndefined)
    ELSE
    LET code == error.rpcCode
        message == OrText(error.details.text,
                          OrText(error.message, {"Unknown gRPC error"}))
    IN  CASE code = 3 -> ValidationError(message, DUndefined)
          [] code = 16 -> AuthenticationError(message, DUndefined)
          [] code = 7 -> AuthenticationError(message, DUndefined)
          [] code = 5 -> TemplateNotFoundError(message, DUndefined)
          [] code = 8 -> RateLimitError(message, DNumber)
          [] code = 14 -> ProviderError({}, DString({}))
          [] code = 4 -> TimeoutError(thisTimeout)
          [] code = 13 -> HuefyError(message, "INTERNAL_ERROR", NoStatus, DUndefined)
          [] OTHER -> NetworkError({"gRPC error (): "} \cup message, Undefined)

---------------------------------------------------------------------------
(* KernelClient (second half of errors.ts): one child process,              *)
(* isRetryableError, convertError                                           *)

\* what JSON.parse(stdout) yields; `echo` is the part of an unparsable output
\* that the runtime quotes in its SyntaxError message
Stdout(shape, success, errCode, errMessage, echo) ==
    [shape |-> shape, success |-> success, errCode |-> errCode,
     errMessage |-> errMessage, echo |-> echo]
NoStdout == Stdout("none", FALSE, UndefinedCode, Undefined, {})

\* the event that settles the promise of spawnKernelProcess first
ChildClose(exitCode, stdout, stderr) ==
    [ev |-> "close", exitCode |-> exitCode, stdout |-> stdout, text |-> stderr]
ChildError(message) ==
    [ev |-> "error", exitCode |-> 0, stdout |-> NoStdout, text |-> message]
StdinWriteFails(message) ==
    [ev |-> "stdin", exitCode |-> 0, stdout |-> NoStdout, text |-> message]
ChildTimeout ==
    [ev |-> "timeout", exitCode |-> 0, stdout |-> NoStdout, text |-> {}]

\* a 'close' handler that looks at the output before the exit code
OnCloseOutputFirst(ko) ==
    IF ko.stdout.shape = "object" /\ ko.stdout.success
    THEN Returns([data |-> ko.stdout, status |-> 0])
    ELSE IF ko.exitCode # 0
    THEN Raises(PlainError("Error",
                    {"Kernel process exited with code : "} \cup ko.text))
    ELSE Raises(PlainError("Error",
                    {"Failed to parse kernel response: "} \cup ko.stdout.echo))

\* the 'close' handler (errors.ts 490-512)
OnClose(ko) ==
    IF ko.exitCode # 0
    THEN Raises(PlainError("Error",
                    {"Kernel process exited with code : "} \cup ko.text))
    ELSE IF ko.stdout.shape = "invalid"
    THEN Raises(PlainError("Error",
                    {"Failed to parse kernel response: "} \cup ko.stdout.echo))
    ELSE IF ko.stdout.shape = "null"
    THEN Raises(PlainError("Error",
                    {"Failed to parse kernel response: ",
                     "Cannot read properties of null"}))
    ELSE IF ~ko.stdout.success
    THEN Raises(HuefyError(OrText(ko.stdout.errMessage, {"Unknown kernel error"}),
                           OrCode(ko.stdout.errCode, "KERNEL_ERROR"),
                           NoStatus, DUndefined))
    ELSE Returns([data |-> ko.stdout, status |-> 0])

spawnKernelProcess(ko, thisTimeout) ==
    CASE ko.ev = "close" -> OnClose(ko)
      [] ko.ev = "error" ->
            Raises(PlainError("Error",
                       {"Failed to spawn kernel process: "} \cup ko.text))
      [] ko.ev = "stdin" ->
            Raises(PlainError("Error",
                       {"Failed to write to kernel process: "} \cup ko.text))
      [] OTHER -> Raises(TimeoutError(thisTimeout))

KernelIsRetryableError(error) ==
    IF error.cls = "TimeoutError" THEN TRUE
    ELSE IF error.cls = "NetworkError" THEN TRUE
    ELSE "ECONNREFUSED" \in error.message \/ "timeout" \in error.message

convertError(error, thisTimeout) ==
    IF error.cls = "null"
    THEN HuefyError({"Unknown error occurred"}, "UNKNOWN_ERROR", NoStatus, DUndefined)
    ELSE IF InstanceOfHuefyError(error) THEN error
    ELSE
    LET message == OrText(error.message, {"Unknown kernel error"}) IN
    IF "API key" \in message THEN AuthenticationError(message, DUndefined)
    ELSE IF "template" \in message THEN TemplateNotFoundError(message, DUndefined)
    ELSE IF "rate limit" \in message THEN RateLimitError(message, DNumber)
    ELSE IF "timeout" \in message THEN TimeoutError(thisTimeout)
    ELSE IF "network" \in message \/ "connection" \in message
    THEN NetworkError(message, Undefined)
    ELSE HuefyError(message, "KERNEL_ERROR", NoStatus, DUndefined)

---------------------------------------------------------------------------
(* The inputs the environment can supply *)

Transports == {"http", "grpc", "kernel"}

Configs(t) ==
    [apiKey : {{}, {"key"}},
     timeout : {{}, {5000}, {-1}},
     retryAttempts : {{}} \cup {{n} : n \in -1..MaxRetryAttempts},
     retryDelay : {{}, {0}, {100}, {6000}},
     protoLoads : IF t = "grpc" THEN BOOLEAN ELSE {TRUE},
     platform : IF t = "kernel" THEN {"linux", "sunos"} ELSE {"linux"}]

\* options.timeout of HttpClient.post / get
CallTimeouts == {{}, {700}}

\* the error codes of the remote API (the ErrorCode enum), a code the SDK does
\* not know, and a payload without a code
RemoteCodes ==
    {"INVALID_API_KEY", "TEMPLATE_NOT_FOUND", "INVALID_TEMPLATE_DATA",
     "INVALID_RECIPIENT", "PROVIDER_ERROR", "RATE_LIMIT_EXCEEDED",
     "INTERNAL_ERROR", "SOME_OTHER_CODE", UndefinedCode}

RemoteTexts == {Undefined, {"x"}, {"x", "fetch"}}

RemoteDetails ==
    {DUndefined,
     DObject([template_key |-> {"t"}]),
     DObject([template_key |-> {}]),
     DObject([recipient |-> {"r"}, field |-> {"v"}]),
     DObject([field |-> {"v"}])}

HttpStatuses == {200, 400, 401, 404, 429, 500, 503}

\* every body response.json() can deliver or fail on
JsonBodies(texts, details) ==
    {JsonBody("object", e, c, d) : e \in texts, c \in RemoteCodes, d \in details}
    \cup {JsonBody("invalid", Undefined, UndefinedCode, DUndefined),
          JsonBody("null", Undefined, UndefinedCode, DUndefined),
          JsonBody("primitive", Undefined, UndefinedCode, DUndefined)}

SuccessBody == JsonBody("object", Undefined, UndefinedCode, DUndefined)

FetchRejections ==
    {PlainError("TypeError", {"Failed to fetch", "fetch"}),
     PlainError("TypeError", {"socket hang up"}),
     PlainError("AbortError", {"The operation was aborted"}),
     PlainError("Error", {"request to host failed", "fetch"}),
     PlainError("Error", {"boom"}),
     PlainError("NonError", {"boom"})}

AllFetchOutcomes ==
    {FetchResponse(s, b) : s \in HttpStatuses, b \in JsonBodies(RemoteTexts, RemoteDetails)}
    \cup {FetchRejection(e) : e \in FetchRejections}

\* the outcomes the attempts of a call are drawn from
HttpOutcomes ==
    {FetchResponse(s, b) :
        s \in {200},
        b \in {SuccessBody, JsonBody("invalid", Undefined, UndefinedCode, DUndefined)}}
    \cup {FetchResponse(s, b) :
            s \in {401, 429, 503},
            b \in JsonBodies({{"x"}, {"x", "fetch"}}, {DUndefined})}
    \cup {FetchRejection(e) : e \in FetchRejections}

GrpcStatusCodes == {1, 2, 3, 4, 5, 7, 8, 13, 14, 16}

GrpcFailures ==
    {ServiceError(c, d, {"m"}) : c \in GrpcStatusCodes, d \in {{}, {"d"}}}
    \cup {PlainError("TypeError", {"is not a function"}), Null}

GrpcOutcomes ==
    {FetchResponse(0, SuccessBody)}
    \cup {FetchRejection(e) : e \in GrpcFailures \ {Null}}

KernelTexts ==
    {{}, {"boom"}, {"API key"}, {"template"}, {"rate limit"}, {"timeout"},
     {"network"}, {"connection"}, {"ECONNREFUSED"}}

KernelStdouts ==
    {Stdout("object", TRUE, UndefinedCode, Undefined, {}),
     Stdout("null", FALSE, UndefinedCode, Undefined, {}),
     Stdout("primitive", FALSE, UndefinedCode, Undefined, {})}
    \cup {Stdout("invalid", FALSE, UndefinedCode, Undefined, e) :
            e \in {{}, {"timeout"}, {"template"}}}
    \cup {Stdout("object", FALSE, c, m, {}) :
            c \in RemoteCodes,
            m \in {Undefined, {"x"}, {"x", "timeout"}, {"ECONNREFUSED"}}}

KernelOutcomes ==
    {ChildClose(0, o, {}) : o \in KernelStdouts}
    \cup {ChildClose(1, NoStdout, t) : t \in KernelTexts}
    \cup {ChildError(t) : t \in {{"spawn ENOENT"}, {"ECONNREFUSED"}}}
    \cup {StdinWriteFails({"EPIPE"}), ChildTimeout}

---------------------------------------------------------------------------
(* The state machine: one client, one call *)

NoRaw == FetchRejection(Null)
NoInput == [fn |-> "none", raw |-> NoRaw, status |-> 0]
NoOutput == Returns(Null)

\* a HuefyClient constructed without callbacks
NoCallbacks ==
    [onSendStart |-> "absent", onSendSuccess |-> "absent",
     onSendError |-> "absent", onRetry |-> "absent"]

\* sendBulkEmails has not been invoked
NotBulk ==
    [pc |-> "idle", isArray |-> FALSE, length |-> 0, emails |-> <<>>,
     result |-> Returns(<<>>)]

\* the caller holds no object returned by getRetryConfig()
NotReturned == [held |-> FALSE, retryConfig |-> DEFAULT_RETRY_CONFIG]

\* nothing is in flight
InitSide ==
    /\ attempts = <<>>
    /\ calls = <<>>
    /\ retryableStatusCodes = DefaultRetryableStatusCodes(transport)
    /\ returned = NotReturned
    /\ callbacks = NoCallbacks
    /\ sends = <<>>
    /\ bulk = NotBulk

Construct(t, cfg) ==
    CASE t = "http" -> HttpClientConstructor(cfg)
      [] t = "grpc" -> GrpcClientConstructor(cfg)
      [] OTHER -> KernelClientConstructor(cfg)

InitCall ==
    /\ pc = "idle"
    /\ callTimeout = 0
    /\ attempt = 0
    /\ lastError = Null
    /\ exchanges = 0
    /\ sleeps = <<>>
    /\ labels = <<>>
    /\ lastRaw = NoRaw
    /\ outcome = NoOutcome

Init ==
    /\ transport \in Transports
    /\ config \in Configs(transport)
    /\ client = Construct(transport, config)
    /\ InitCall
    /\ cin = NoInput
    /\ cout = NoOutput
    /\ InitSide

(* http.ts: HttpClient.request (85-126) *)

HttpRequest(options) ==
    /\ transport = "http" /\ client.ok /\ pc = "idle"
    /\ callTimeout' = OrNumber(options, client.timeout)
    /\ lastError' = Null
    /\ attempt' = 1
    /\ IF LoopContinues(1, client.retryConfig)
       THEN /\ pc' = "call"
            /\ exchanges' = exchanges + 1
            /\ outcome' = outcome
       ELSE /\ pc' = "threw"
            /\ exchanges' = exchanges
            /\ outcome' = ThrownTo(Null)
    /\ UNCHANGED <<transport, config, client, sleeps, labels, lastRaw, cin, cout>>

\* a loop that stores a successful response and goes on to the next attempt
HttpAttemptSettlesKeepsGoing(o) ==
    /\ transport = "http" /\ pc = "call"
    /\ lastRaw' = o
    /\ LET r == makeRequest(o, callTimeout, client.timeout) IN
       /\ labels' = Append(labels, IF ~r.raised THEN "success"
                                   ELSE IF isRetryableError(r.val)
                                   THEN "retryable" ELSE "nonretryable")
       /\ lastError' = IF r.raised THEN r.val ELSE lastError
       /\ sleeps' = sleeps
       /\ IF LastAttempt(attempt, client.retryConfig)
             \/ (r.raised /\ ~isRetryableError(r.val))
          THEN /\ pc' = IF r.raised THEN "threw" ELSE "returned"
               /\ outcome' = IF r.raised THEN ThrownTo(r.val) ELSE ReturnedTo(r.val)
               /\ UNCHANGED <<attempt, exchanges>>
          ELSE /\ pc' = "call"
               /\ attempt' = attempt + 1
               /\ exchanges' = exchanges + 1
               /\ outcome' = outcome
    /\ UNCHANGED <<transport, config, client, callTimeout, cin, cout>>

HttpAttemptSettles(o) ==
    /\ transport = "http" /\ pc = "call"
    /\ lastRaw' = o
    /\ LET r == makeRequest(o, callTimeout, client.timeout) IN
       IF ~r.raised
       THEN /\ pc' = "returned"
            /\ outcome' = ReturnedTo(r.val)
            /\ labels' = Append(labels, "success")
            /\ UNCHANGED <<lastError, sleeps>>
       ELSE /\ lastError' = r.val
            /\ labels' = Append(labels, IF isRetryableError(r.val)
                                        THEN "retryable" ELSE "nonretryable")
            /\ IF LastAttempt(attempt, client.retryConfig) \/ ~isRetryableError(r.val)
               THEN /\ pc' = "threw"
                    /\ outcome' = ThrownTo(r.val)
                    /\ sleeps' = sleeps
               ELSE /\ pc' = "sleep"
                    /\ sleeps' = Append(sleeps, BackoffDelay(client.retryConfig, attempt))
                    /\ outcome' = outcome
    /\ UNCHANGED <<transport, config, client, callTimeout, attempt, exchanges, cin, cout>>

HttpSleepDone ==
    /\ transport = "http" /\ pc = "sleep"
    /\ attempt' = attempt + 1
    /\ IF LoopContinues(attempt + 1, client.retryConfig)
       THEN /\ pc' = "call"
            /\ exchanges' = exchanges + 1
            /\ outcome' = outcome
       ELSE /\ pc' = "threw"
            /\ exchanges' = exchanges
            /\ outcome' = ThrownTo(lastError)
    /\ UNCHANGED <<transport, config, client, callTimeout, lastError, sleeps, labels,
                   lastRaw, cin, cout>>

(* grpc-client.ts: GrpcClient.makeGrpcRequest (180-213) *)

GrpcMakeGrpcRequest ==
    /\ transport = "grpc" /\ client.ok /\ pc = "idle"
    /\ callTimeout' = client.timeout
    /\ lastError' = Null
    /\ attempt' = 1
    /\ IF LoopContinues(1, client.retryConfig)
       THEN /\ pc' = "call"
            /\ exchanges' = exchanges + 1
            /\ outcome' = outcome
       ELSE /\ pc' = "threw"
            /\ exchanges' = exchanges
            /\ outcome' = ThrownTo(convertGrpcError(Null, client.timeout))
    /\ UNCHANGED <<transport, config, client, sleeps, labels, lastRaw, cin, cout>>

\* a gRPC loop that retries every failure, whatever isRetryableGrpcError says
GrpcCallSettlesRetriesAll(o) ==
    /\ transport = "grpc" /\ pc = "call"
    /\ lastRaw' = o
    /\ LET r == executeGrpcCall(o) IN
       IF ~r.raised
       THEN /\ pc' = "returned"
            /\ outcome' = ReturnedTo(r.val)
            /\ labels' = Append(labels, "success")
            /\ UNCHANGED <<lastError, sleeps>>
       ELSE /\ lastError' = r.val
            /\ labels' = Append(labels, IF isRetryableGrpcError(r.val)
                                        THEN "retryable" ELSE "nonretryable")
            /\ IF LastAttempt(attempt, client.retryConfig)
               THEN /\ pc' = "threw"
                    /\ outcome' = ThrownTo(convertGrpcError(r.val, client.timeout))
                    /\ sleeps' = sleeps
               ELSE /\ pc' = "sleep"
                    /\ sleeps' = Append(sleeps, BackoffDelay(client.retryConfig, attempt))
                    /\ outcome' = outcome
    /\ UNCHANGED <<transport, config, client, callTimeout, attempt, exchanges, cin, cout>>
GrpcCallSettles(o) ==
    /\ transport = "grpc" /\ pc = "call"
    /\ lastRaw' = o
    /\ LET r == executeGrpcCall(o) IN
       IF ~r.raised
       THEN /\ pc' = "returned"
            /\ outcome' = ReturnedTo(r.val)
            /\ labels' = Append(labels, "success")
            /\ UNCHANGED <<lastError, sleeps>>
       ELSE /\ lastError' = r.val
            /\ labels' = Append(labels, IF isRetryableGrpcError(r.val)
                                        THEN "retryable" ELSE "nonretryable")
            /\ IF LastAttempt(attempt, client.retryConfig) \/ ~isRetryableGrpcError(r.val)
               THEN /\ pc' = "threw"
                    /\ outcome' = ThrownTo(convertGrpcError(r.val, client.timeout))
                    /\ sleeps' = sleeps
               ELSE /\ pc' = "sleep"
                    /\ sleeps' = Append(sleeps, BackoffDelay(client.retryConfig, attempt))
                    /\ outcome' = outcome
    /\ UNCHANGED <<transport, config, client, callTimeout, attempt, exchanges, cin, cout>>

GrpcSleepDone ==
    /\ transport = "grpc" /\ pc = "sleep"
    /\ attempt' = attempt + 1
    /\ IF LoopContinues(attempt + 1, client.retryConfig)
       THEN /\ pc' = "call"
            /\ exchanges' = exchanges + 1
            /\ outcome' = outcome
       ELSE /\ pc' = "threw"
            /\ exchanges' = exchanges
            /\ outcome' = ThrownTo(convertGrpcError(lastError, client.timeout))
    /\ UNCHANGED <<transport, config, client, callTimeout, lastError, sleeps, labels,
                   lastRaw, cin, cout>>

(* errors.ts: KernelClient.executeKernelCommand (435-468) *)

KernelExecuteKernelCommand ==
    /\ transport = "kernel" /\ client.ok /\ pc = "idle"
    /\ callTimeout' = client.timeout
    /\ lastError' = Null
    /\ attempt' = 1
    /\ IF LoopContinues(1, client.retryConfig)
       THEN /\ pc' = "call"
            /\ exchanges' = exchanges + 1
            /\ outcome' = outcome
       ELSE /\ pc' = "threw"
            /\ exchanges' = exchanges
            /\ outcome' = ThrownTo(convertError(Null, client.timeout))
    /\ UNCHANGED <<transport, config, client, sleeps, labels, lastRaw, cin, cout>>

\* a loop that sleeps after every retryable failure, the last one included
KernelProcessSettlesSleepsLast(o) ==
    /\ transport = "kernel" /\ pc = "call"
    /\ lastRaw' = o
    /\ LET r == spawnKernelProcess(o, client.timeout) IN
       IF ~r.raised
       THEN /\ pc' = "returned"
            /\ outcome' = ReturnedTo(r.val)
            /\ labels' = Append(labels, "success")
            /\ UNCHANGED <<lastError, sleeps>>
       ELSE /\ lastError' = r.val
            /\ labels' = Append(labels, IF KernelIsRetryableError(r.val)
                                        THEN "retryable" ELSE "nonretryable")
            /\ IF ~KernelIsRetryableError(r.val)
               THEN /\ pc' = "threw"
                    /\ outcome' = ThrownTo(convertError(r.val, client.timeout))
                    /\ sleeps' = sleeps
               ELSE /\ pc' = "sleep"
                    /\ sleeps' = Append(sleeps, BackoffDelay(client.retryConfig, attempt))
                    /\ outcome' = outcome
    /\ UNCHANGED <<transport, config, client, callTimeout, attempt, exchanges, cin, cout>>
KernelProcessSettles(o) ==
    /\ transport = "kernel" /\ pc = "call"
    /\ lastRaw' = o
    /\ LET r == spawnKernelProcess(o, client.timeout) IN
       IF ~r.raised
       THEN /\ pc' = "returned"
            /\ outcome' = ReturnedTo(r.val)
            /\ labels' = Append(labels, "success")
            /\ UNCHANGED <<lastError, sleeps>>
       ELSE /\ lastError' = r.val
            /\ labels' = Append(labels, IF KernelIsRetryableError(r.val)
                                        THEN "retryable" ELSE "nonretryable")
            /\ IF LastAttempt(attempt, client.retryConfig) \/ ~KernelIsRetryableError(r.val)
               THEN /\ pc' = "threw"
                    /\ outcome' = ThrownTo(convertError(r.val, client.timeout))
                    /\ sleeps' = sleeps
               ELSE /\ pc' = "sleep"
                    /\ sleeps' = Append(sleeps, BackoffDelay(client.retryConfig, attempt))
                    /\ outcome' = outcome
    /\ UNCHANGED <<transport, config, client, callTimeout, attempt, exchanges, cin, cout>>

KernelSleepDone ==
    /\ transport = "kernel" /\ pc = "sleep"
    /\ attempt' = attempt + 1
    /\ IF LoopContinues(attempt + 1, client.retryConfig)
       THEN /\ pc' = "call"
            /\ exchanges' = exchanges + 1
            /\ outcome' = outcome
       ELSE /\ pc' = "threw"
            /\ exchanges' = exchanges
            /\ outcome' = ThrownTo(convertError(lastError, client.timeout))
    /\ UNCHANGED <<transport, config, client, callTimeout, lastError, sleeps, labels,
                   lastRaw, cin, cout>>

Next ==
    \/ \E options \in CallTimeouts : HttpRequest(options) /\ UNCHANGED sideVars
    \/ \E o \in HttpOutcomes : HttpAttemptSettles(o) /\ UNCHANGED sideVars
    \/ HttpSleepDone /\ UNCHANGED sideVars
    \/ GrpcMakeGrpcRequest /\ UNCHANGED sideVars
    \/ \E o \in GrpcOutcomes : GrpcCallSettles(o) /\ UNCHANGED sideVars
    \/ GrpcSleepDone /\ UNCHANGED sideVars
    \/ KernelExecuteKernelCommand /\ UNCHANGED sideVars
    \/ \E o \in KernelOutcomes : KernelProcessSettles(o) /\ UNCHANGED sideVars
    \/ KernelSleepDone /\ UNCHANGED sideVars

Spec == Init /\ [][Next]_vars

---------------------------------------------------------------------------
(* The classification functions on their own: every input, one application *)

\* the rejections spawnKernelProcess can produce, and a null failure
KernelFailures ==
    {spawnKernelProcess(ko, 5000).val :
        ko \in {k \in KernelOutcomes : spawnKernelProcess(k, 5000).raised}}
    \cup {Null}

ClassifyInputs ==
    {[fn |-> "createErrorFromResponse", raw |-> FetchResponse(s, b), status |-> s] :
        s \in HttpStatuses \ {200},
        b \in JsonBodies(RemoteTexts, RemoteDetails)
              \ {JsonBody("invalid", Undefined, UndefinedCode, DUndefined)}}
    \cup {[fn |-> "makeRequest", raw |-> fo, status |-> fo.status] :
            fo \in AllFetchOutcomes}
    \cup {[fn |-> "convertGrpcError", raw |-> FetchRejection(e), status |-> 0] :
            e \in GrpcFailures}
    \cup {[fn |-> "convertError", raw |-> FetchRejection(e), status |-> 0] :
            e \in KernelFailures}

InitClassify ==
    /\ transport = "http"
    /\ config = [apiKey |-> {"key"}, timeout |-> {}, retryAttempts |-> {},
                 retryDelay |-> {}, protoLoads |-> TRUE, platform |-> "linux"]
    /\ client = Construct(transport, config)
    /\ InitCall
    /\ cin \in ClassifyInputs
    /\ cout = NoOutput
    /\ InitSide

ClassifyResponse ==
    /\ pc = "idle" /\ cin.fn = "createErrorFromResponse"
    /\ cout' = createErrorFromResponse(cin.raw.body, cin.status)
    /\ pc' = "classified"
    /\ UNCHANGED <<transport, config, client, callTimeout, attempt, lastError,
                   exchanges, sleeps, labels, lastRaw, outcome, cin>>

ClassifyAttempt ==
    /\ pc = "idle" /\ cin.fn = "makeRequest"
    /\ cout' = makeRequest(cin.raw, client.timeout, client.timeout)
    /\ pc' = "classified"
    /\ UNCHANGED <<transport, config, client, callTimeout, attempt, lastError,
                   exchanges, sleeps, labels, lastRaw, outcome, cin>>

ClassifyGrpc ==
    /\ pc = "idle" /\ cin.fn = "convertGrpcError"
    /\ cout' = Returns(convertGrpcError(cin.raw.err, client.timeout))
    /\ pc' = "classified"
    /\ UNCHANGED <<transport, config, client, callTimeout, attempt, lastError,
                   exchanges, sleeps, labels, lastRaw, outcome, cin>>

ClassifyKernel ==
    /\ pc = "idle" /\ cin.fn = "convertError"
    /\ cout' = Returns(convertError(cin.raw.err, client.timeout))
    /\ pc' = "classified"
    /\ UNCHANGED <<transport, config, client, callTimeout, attempt, lastError,
                   exchanges, sleeps, labels, lastRaw, outcome, cin>>

NextClassify ==
    \/ ClassifyResponse /\ UNCHANGED sideVars
    \/ ClassifyAttempt /\ UNCHANGED sideVars
    \/ ClassifyGrpc /\ UNCHANGED sideVars
    \/ ClassifyKernel /\ UNCHANGED sideVars

SpecClassify == InitClassify /\ [][NextClassify]_vars

---------------------------------------------------------------------------
(* One attempt, event by event: its timer, the response, the child process *)

\* the variables of the retry loops and of the classification runs
loopVars == <<transport, config, client, pc, callTimeout, attempt, lastError,
              exchanges, sleeps, labels, lastRaw, outcome, cin, cout>>

\* `let stdout = ''`: nothing received yet; JSON.parse('') throws
EmptyStdout == Stdout("invalid", FALSE, UndefinedCode, Undefined, {})

\* the child has not closed yet
NoExit == -1

\* what an attempt sets up when it starts: the timer is armed (setTimeout in
\* makeRequest and spawnKernelProcess, the deadline of the RPC), the child is
\* spawned, nothing has been received and the attempt's promise is pending
NewAttempt(t) ==
    [timeoutId |-> "armed",
     kernelProcess |-> IF t = "kernel" THEN "running" ELSE "none",
     stdout |-> EmptyStdout,
     exitCode |-> NoExit,
     stderr |-> {},
     errored |-> FALSE,
     phase |-> CASE t = "http" -> "fetch" [] t = "grpc" -> "rpc" [] OTHER -> "child",
     status |-> 0,
     settled |-> FALSE,
     by |-> NoRaw]

\* the loop has entered its body: one more attempt is in flight
Started ==
    attempts' = IF pc' = "call" THEN Append(attempts, NewAttempt(transport))
                ELSE attempts

Current == attempts[Len(attempts)]

\* the attempt of the current loop iteration has not settled yet
InFlight == pc = "call" /\ Len(attempts) >= 1 /\ ~Current.settled

\* the attempt's promise is settled by raw event o; later resolve / reject
\* calls on it are no-ops
SettledBy(a, o) == [a EXCEPT !.settled = TRUE, !.by = o, !.phase = "done"]

(* HttpClient.makeRequest *)

\* the errors fetch rejects with when the signal aborts
AbortErrors ==
    {PlainError("AbortError", {"The user aborted a request."}),
     PlainError("AbortError", {"This operation was aborted"})}

\* connection-level failures of fetch
ConnectionFailures == {e \in FetchRejections : e.cls # "AbortError"}

EventBodies ==
    {SuccessBody,
     JsonBody("invalid", Undefined, UndefinedCode, DUndefined),
     JsonBody("object", {"x"}, "INVALID_API_KEY", DUndefined),
     JsonBody("object", {"x"}, "PROVIDER_ERROR", DUndefined)}

EventStatuses == {200, 401, 503}

EvHttpRequest(options) == HttpRequest(options) /\ Started

EvHttpSleepDone == HttpSleepDone /\ Started

\* `await fetch(...)` resolves with the response head; clearTimeout(timeoutId)
EvFetchResolves(s) ==
    /\ transport = "http" /\ InFlight /\ Current.phase = "fetch"
    /\ attempts' = [attempts EXCEPT ![Len(attempts)] =
                       [@ EXCEPT !.timeoutId = "cleared", !.phase = "body",
                                 !.status = s]]
    /\ UNCHANGED loopVars

\* an attempt that answers a connection failure by calling fetch once more
EvFetchRejectsRefetches(e) ==
    /\ transport = "http" /\ InFlight /\ Current.phase = "fetch"
    /\ IF Len(attempts) = attempt
       THEN /\ attempts' = Append([attempts EXCEPT ![Len(attempts)] =
                                      SettledBy([@ EXCEPT !.timeoutId = "cleared"],
                                                FetchRejection(e))],
                                  NewAttempt(transport))
            /\ UNCHANGED loopVars
       ELSE /\ HttpAttemptSettles(FetchRejection(e))
            /\ attempts' = [attempts EXCEPT ![Len(attempts)] =
                               SettledBy([@ EXCEPT !.timeoutId = "cleared"],
                                         FetchRejection(e))]
\* fetch rejects with a connection-level failure; the catch block clears the timer
EvFetchRejects(e) ==
    /\ transport = "http" /\ InFlight /\ Current.phase = "fetch"
    /\ HttpAttemptSettles(FetchRejection(e))
    /\ attempts' = [attempts EXCEPT ![Len(attempts)] =
                       SettledBy([@ EXCEPT !.timeoutId = "cleared"],
                                 FetchRejection(e))]

\* the timer fires: controller.abort(), fetch rejects with an AbortError
EvAbort(e) ==
    /\ transport = "http" /\ InFlight /\ Current.phase = "fetch"
    /\ Current.timeoutId = "armed"
    /\ HttpAttemptSettles(FetchRejection(e))
    /\ attempts' = [attempts EXCEPT ![Len(attempts)] =
                       SettledBy([@ EXCEPT !.timeoutId = "fired"],
                                 FetchRejection(e))]

\* `await response.json()` settles: the body arrived and parsed, or did not parse
EvBodySettles(b) ==
    /\ transport = "http" /\ InFlight /\ Current.phase = "body"
    /\ HttpAttemptSettles(FetchResponse(Current.status, b))
    /\ attempts' = [attempts EXCEPT ![Len(attempts)] =
                       SettledBy(@, FetchResponse(Current.status, b))]

(* GrpcClient.executeGrpcCall *)

\* the error of an RPC whose deadline passed
DeadlineExceeded == ServiceError(4, {"Deadline exceeded"}, {"4 DEADLINE_EXCEEDED"})

EventGrpcOutcomes ==
    {FetchResponse(0, SuccessBody)}
    \cup {FetchRejection(ServiceError(c, {"d"}, {"m"})) : c \in {14, 16}}

EvGrpcRequest == GrpcMakeGrpcRequest /\ Started

EvGrpcSleepDone == GrpcSleepDone /\ Started

\* the callback runs with the server's answer
EvGrpcCallback(o) ==
    /\ transport = "grpc" /\ InFlight
    /\ GrpcCallSettles(o)
    /\ attempts' = [attempts EXCEPT ![Len(attempts)] =
                       SettledBy([@ EXCEPT !.timeoutId = "cleared"], o)]

\* the deadline passes: the callback runs with DEADLINE_EXCEEDED
EvGrpcDeadline ==
    /\ transport = "grpc" /\ InFlight /\ Current.timeoutId = "armed"
    /\ GrpcCallSettles(FetchRejection(DeadlineExceeded))
    /\ attempts' = [attempts EXCEPT ![Len(attempts)] =
                       SettledBy([@ EXCEPT !.timeoutId = "fired"],
                                 FetchRejection(DeadlineExceeded))]

(* KernelClient.spawnKernelProcess *)

EventStdouts ==
    {Stdout("object", TRUE, UndefinedCode, Undefined, {}),
     Stdout("invalid", FALSE, UndefinedCode, Undefined, {"x"}),
     Stdout("object", FALSE, "INVALID_API_KEY", {"x"}, {})}

EventStderrs == {{"boom"}, {"ECONNREFUSED"}}

EvKernelCommand == KernelExecuteKernelCommand /\ Started

EvKernelSleepDone == KernelSleepDone /\ Started

\* stdout 'data': `stdout += data.toString()`
EvStdoutData(o) ==
    /\ transport = "kernel" /\ InFlight
    /\ Current.kernelProcess = "running" /\ Current.stdout = EmptyStdout
    /\ attempts' = [attempts EXCEPT ![Len(attempts)].stdout = o]
    /\ UNCHANGED loopVars

\* writing the request to stdin throws: reject(...); the child stays as it
\* is and the timer is set all the same
EvStdinWriteFails(m) ==
    /\ transport = "kernel" /\ InFlight
    /\ Current.kernelProcess = "running" /\ Current.stdout = EmptyStdout
    /\ KernelProcessSettles(StdinWriteFails(m))
    /\ attempts' = [attempts EXCEPT ![Len(attempts)] =
                       SettledBy(@, StdinWriteFails(m))]

\* 'error' on the child of attempt k: the process could not be spawned, or
\* (after the attempt settled) could not be killed; reject(...) on a settled
\* promise is a no-op and the child stays as it is
EvChildError(k, m) ==
    /\ transport = "kernel"
    /\ IF ~attempts[k].settled
       THEN /\ k = Len(attempts) /\ InFlight
            /\ Current.kernelProcess = "running" /\ Current.stdout = EmptyStdout
            /\ KernelProcessSettles(ChildError(m))
            /\ attempts' = [attempts EXCEPT ![Len(attempts)] =
                               SettledBy([@ EXCEPT !.kernelProcess = "unspawned",
                                                   !.errored = TRUE],
                                         ChildError(m))]
       ELSE /\ attempts[k].kernelProcess \in {"running", "signalled"}
            /\ ~attempts[k].errored
            /\ attempts' = [attempts EXCEPT ![k].errored = TRUE]
            /\ UNCHANGED loopVars

\* 'close' of the child of attempt k, with its exit code (a child ended by a
\* signal closes with code null, which is not 0)
EvChildClose(k, code, stderr) ==
    /\ transport = "kernel"
    /\ attempts[k].kernelProcess \in {"running", "signalled"}
    /\ LET o == ChildClose(code, attempts[k].stdout, stderr) IN
       IF ~attempts[k].settled
       THEN /\ KernelProcessSettles(o)
            /\ attempts' = [attempts EXCEPT ![k] =
                               SettledBy([@ EXCEPT !.kernelProcess = "exited",
                                                   !.exitCode = code,
                                                   !.stderr = stderr], o)]
       ELSE /\ attempts' = [attempts EXCEPT ![k] =
                               [@ EXCEPT !.kernelProcess = "exited",
                                         !.exitCode = code,
                                         !.stderr = stderr]]
            /\ UNCHANGED loopVars

\* a timer that kills the child and leaves the verdict to the 'close' handler
EvKernelTimerKillOnly(k) ==
    /\ transport = "kernel"
    /\ attempts[k].timeoutId = "armed"
    /\ LET killed == IF attempts[k].kernelProcess = "running" THEN "signalled"
                     ELSE attempts[k].kernelProcess
       IN  attempts' = [attempts EXCEPT ![k] =
                           [@ EXCEPT !.timeoutId = IF attempts[k].settled
                                                   THEN "late" ELSE "fired",
                                     !.kernelProcess = killed]]
    /\ UNCHANGED loopVars
\* a promise that could be settled again: the timer's reject always takes effect
EvKernelTimerSettlesAgain(k) ==
    /\ transport = "kernel"
    /\ attempts[k].timeoutId = "armed"
    /\ LET killed == IF attempts[k].kernelProcess = "running" THEN "signalled"
                     ELSE attempts[k].kernelProcess
       IN  attempts' = [attempts EXCEPT ![k] =
                           SettledBy([@ EXCEPT !.timeoutId = "fired",
                                               !.kernelProcess = killed],
                                     ChildTimeout)]
    /\ IF ~attempts[k].settled THEN KernelProcessSettles(ChildTimeout)
       ELSE UNCHANGED loopVars
\* the timer of attempt k fires: kernelProcess.kill(); reject(new TimeoutError)
EvKernelTimer(k) ==
    /\ transport = "kernel"
    /\ attempts[k].timeoutId = "armed"
    /\ LET killed == IF attempts[k].kernelProcess = "running" THEN "signalled"
                     ELSE attempts[k].kernelProcess
       IN
       IF ~attempts[k].settled
       THEN /\ KernelProcessSettles(ChildTimeout)
            /\ attempts' = [attempts EXCEPT ![k] =
                               SettledBy([@ EXCEPT !.timeoutId = "fired",
                                                   !.kernelProcess = killed],
                                         ChildTimeout)]
       ELSE /\ attempts' = [attempts EXCEPT ![k] =
                               [@ EXCEPT !.timeoutId = "late",
                                         !.kernelProcess = killed]]
            /\ UNCHANGED loopVars

\* the variables no event of an attempt touches
eventFrame == <<calls, retryableStatusCodes, returned, huefyVars>>

\* clients that construct, with the default timeout and retry delay
EventConfigs(t) ==
    {cfg \in Configs(t) :
        /\ Construct(t, cfg).ok
        /\ cfg.timeout = {} /\ cfg.retryDelay = {}}

InitEvents ==
    /\ transport \in Transports
    /\ config \in EventConfigs(transport)
    /\ client = Construct(transport, config)
    /\ InitCall
    /\ cin = NoInput
    /\ cout = NoOutput
    /\ InitSide

NextEvents ==
    \/ \E options \in CallTimeouts : EvHttpRequest(options) /\ UNCHANGED eventFrame
    \/ EvHttpSleepDone /\ UNCHANGED eventFrame
    \/ \E s \in EventStatuses : EvFetchResolves(s) /\ UNCHANGED eventFrame
    \/ \E e \in ConnectionFailures : EvFetchRejects(e) /\ UNCHANGED eventFrame
    \/ \E e \in AbortErrors : EvAbort(e) /\ UNCHANGED eventFrame
    \/ \E b \in EventBodies : EvBodySettles(b) /\ UNCHANGED eventFrame
    \/ EvGrpcRequest /\ UNCHANGED eventFrame
    \/ EvGrpcSleepDone /\ UNCHANGED eventFrame
    \/ \E o \in EventGrpcOutcomes : EvGrpcCallback(o) /\ UNCHANGED eventFrame
    \/ EvGrpcDeadline /\ UNCHANGED eventFrame
    \/ EvKernelCommand /\ UNCHANGED eventFrame
    \/ EvKernelSleepDone /\ UNCHANGED eventFrame
    \/ \E o \in EventStdouts : EvStdoutData(o) /\ UNCHANGED eventFrame
    \/ \E m \in {{"EPIPE"}} : EvStdinWriteFails(m) /\ UNCHANGED eventFrame
    \/ \E k \in 1..Len(attempts), m \in {{"spawn ENOENT"}} :
          EvChildError(k, m) /\ UNCHANGED eventFrame
    \/ \E k \in 1..Len(attempts), code \in {0, 1}, t \in EventStderrs :
          EvChildClose(k, code, t) /\ UNCHANGED eventFrame
    \/ \E k \in 1..Len(attempts) : EvKernelTimer(k) /\ UNCHANGED eventFrame

SpecEvents == InitEvents /\ [][NextEvents]_vars

\* what the runtime guarantees: a call that is made starts, and every timer
\* that stays armed fires (the backoff sleeps, the abort timer, the RPC
\* deadline, the kill timer); the remote side and the child owe nothing
TimersFire ==
    /\ WF_vars((\E options \in CallTimeouts : EvHttpRequest(options)) /\ UNCHANGED eventFrame)
    /\ WF_vars((EvGrpcRequest) /\ UNCHANGED eventFrame)
    /\ WF_vars((EvKernelCommand) /\ UNCHANGED eventFrame)
    /\ WF_vars((EvHttpSleepDone) /\ UNCHANGED eventFrame)
    /\ WF_vars((EvGrpcSleepDone) /\ UNCHANGED eventFrame)
    /\ WF_vars((EvKernelSleepDone) /\ UNCHANGED eventFrame)
    /\ WF_vars((\E e \in AbortErrors : EvAbort(e)) /\ UNCHANGED eventFrame)
    /\ WF_vars((EvGrpcDeadline) /\ UNCHANGED eventFrame)
    /\ WF_vars((\E k \in 1..Len(attempts) : EvKernelTimer(k)) /\ UNCHANGED eventFrame)

SpecEventsFair == SpecEvents /\ TimersFire

---------------------------------------------------------------------------
(* Several calls at once on one HttpClient *)

\* the calls in flight together
MaxCalls == 2
CallIds == 1..MaxCalls

\* the locals of one HttpClient.request invocation (timeout, attempt,
\* lastError), where it stands, what it handed to its caller, and what it has
\* seen: the options it was called with and the transport outcome of each of
\* its attempts
NotCalled ==
    [pc |-> "idle", options |-> {}, callTimeout |-> 0, attempt |-> 0,
     lastError |-> Null, sleeps |-> <<>>, outcome |-> NoOutcome, raws |-> <<>>]

\* request(): entry up to the loop test
RequestEnter(options) ==
    [pc |-> IF LoopContinues(1, client.retryConfig) THEN "call" ELSE "threw",
     options |-> options,
     callTimeout |-> OrNumber(options, client.timeout),
     attempt |-> 1,
     lastError |-> Null,
     sleeps |-> <<>>,
     outcome |-> IF LoopContinues(1, client.retryConfig) THEN NoOutcome
                 ELSE ThrownTo(Null),
     raws |-> <<>>]

\* request(): makeRequest settles with transport outcome o; the catch block
RequestAttemptSettles(l, o) ==
    LET r == makeRequest(o, l.callTimeout, client.timeout)
        seen == [l EXCEPT !.raws = Append(@, o)]
    IN  IF ~r.raised
        THEN [seen EXCEPT !.pc = "returned", !.outcome = ReturnedTo(r.val)]
        ELSE IF LastAttempt(l.attempt, client.retryConfig) \/ ~isRetryableError(r.val)
        THEN [seen EXCEPT !.lastError = r.val, !.pc = "threw",
                          !.outcome = ThrownTo(r.val)]
        ELSE [seen EXCEPT !.lastError = r.val, !.pc = "sleep",
                          !.sleeps = Append(@, BackoffDelay(client.retryConfig,
                                                            l.attempt))]

\* request(): the sleep is over; attempt++ and the loop test
RequestSleepDone(l) ==
    IF LoopContinues(l.attempt + 1, client.retryConfig)
    THEN [l EXCEPT !.attempt = @ + 1, !.pc = "call"]
    ELSE [l EXCEPT !.attempt = @ + 1, !.pc = "threw",
                   !.outcome = ThrownTo(l.lastError)]

\* the outcomes the attempts of concurrent calls meet
ConcurrentOutcomes ==
    {FetchResponse(200, SuccessBody),
     FetchResponse(401, JsonBody("object", {"x"}, "INVALID_API_KEY", DUndefined)),
     FetchRejection(PlainError("AbortError", {"The user aborted a request."}))}

ConcRequest(c, options) ==
    /\ calls[c].pc = "idle"
    /\ calls' = [calls EXCEPT ![c] = RequestEnter(options)]
    /\ UNCHANGED <<loopVars, attempts, retryableStatusCodes, returned, huefyVars>>

ConcAttemptSettles(c, o) ==
    /\ calls[c].pc = "call"
    /\ calls' = [calls EXCEPT ![c] = RequestAttemptSettles(calls[c], o)]
    /\ UNCHANGED <<loopVars, attempts, retryableStatusCodes, returned, huefyVars>>

\* a loop counter kept on the client instead of in the call
ConcSleepDoneSharedCounter(c) ==
    /\ calls[c].pc = "sleep"
    /\ calls' = [d \in CallIds |->
                    IF d = c THEN RequestSleepDone(calls[c])
                    ELSE IF calls[d].pc \in {"call", "sleep"}
                    THEN [calls[d] EXCEPT !.attempt = calls[c].attempt + 1]
                    ELSE calls[d]]
    /\ UNCHANGED <<loopVars, attempts, retryableStatusCodes, returned, huefyVars>>

ConcSleepDone(c) ==
    /\ calls[c].pc = "sleep"
    /\ calls' = [calls EXCEPT ![c] = RequestSleepDone(calls[c])]
    /\ UNCHANGED <<loopVars, attempts, retryableStatusCodes, returned, huefyVars>>

InitConcurrent ==
    /\ transport = "http"
    /\ config \in EventConfigs(transport)
    /\ client = Construct(transport, config)
    /\ InitCall
    /\ cin = NoInput
    /\ cout = NoOutput
    /\ attempts = <<>>
    /\ calls = [c \in CallIds |-> NotCalled]
    /\ retryableStatusCodes = DefaultRetryableStatusCodes(transport)
    /\ returned = NotReturned
    /\ callbacks = NoCallbacks
    /\ sends = <<>>
    /\ bulk = NotBulk

NextConcurrent ==
    \/ \E c \in CallIds, options \in CallTimeouts : ConcRequest(c, options)
    \/ \E c \in CallIds, o \in ConcurrentOutcomes : ConcAttemptSettles(c, o)
    \/ \E c \in CallIds : ConcSleepDone(c)

SpecConcurrent == InitConcurrent /\ [][NextConcurrent]_vars

---------------------------------------------------------------------------
(* getRetryConfig() and what a caller can do with its result *)

\* getRetryConfig(): `return { ...this.retryConfig }`, a copy of the top-level
\* properties; its retryableStatusCodes is the client's own array
GetRetryConfig ==
    /\ client.ok
    /\ returned' = [held |-> TRUE, retryConfig |-> client.retryConfig]
    /\ UNCHANGED <<loopVars, attempts, calls, retryableStatusCodes, huefyVars>>

\* the caller assigns a property of the returned object
SetReturnedMaxAttempts(n) ==
    /\ returned.held
    /\ returned' = [returned EXCEPT !.retryConfig.maxAttempts = n]
    /\ UNCHANGED <<loopVars, attempts, calls, retryableStatusCodes, huefyVars>>

\* the caller changes the array of the returned object:
\* returned.retryableStatusCodes.push(code) / splice(indexOf(code), 1)
ChangeReturnedCodes(code) ==
    /\ returned.held
    /\ retryableStatusCodes' = IF code \in retryableStatusCodes
                               THEN retryableStatusCodes \ {code}
                               ELSE retryableStatusCodes \cup {code}
    /\ UNCHANGED <<loopVars, attempts, calls, returned, huefyVars>>

InitConfig ==
    /\ transport \in Transports
    /\ config \in EventConfigs(transport)
    /\ client = Construct(transport, config)
    /\ InitCall
    /\ cin = NoInput
    /\ cout = NoOutput
    /\ InitSide

NextConfig ==
    \/ Next
    \/ GetRetryConfig
    \/ \E n \in {1} : SetReturnedMaxAttempts(n)
    \/ \E code \in {14, 4} : ChangeReturnedCodes(code)

SpecConfig == InitConfig /\ [][NextConfig]_vars

---------------------------------------------------------------------------
(* Construction: the configurations a caller can pass, valid or not *)

\* a baseUrl that is no URL (HttpClient) and no host:port (GrpcClient, KernelClient)
MalformedAddress == {"http://[malformed"}

\* protoLoads stands for the try block of initializeGrpcClient completing,
\* which for a given address is up to the gRPC library
ConstructConfigs(t) ==
    [apiKey : {{}, {"key"}, NotAString},
     timeout : {{}, {-1}},
     retryAttempts : {{}, {1}, {2}},
     retryDelay : {{}},
     protoLoads : IF t = "grpc" THEN BOOLEAN ELSE {TRUE},
     platform : IF t = "kernel" THEN {"linux", "sunos"} ELSE {"linux"},
     baseUrl : {{}, {"https://api.huefy.com/api/v1/sdk"}, MalformedAddress}]

InitConstruct ==
    /\ transport \in Transports
    /\ config \in ConstructConfigs(transport)
    /\ client = Construct(transport, config)
    /\ InitCall
    /\ cin = NoInput
    /\ cout = NoOutput
    /\ InitSide

SpecConstruct == InitConstruct /\ [][Next]_vars

---------------------------------------------------------------------------
(* One HTTP call against a scripted remote: what every attempt received *)

\* the responses and the rejection the remote side is scripted with
HistoryOutcomes ==
    {FetchResponse(200, SuccessBody)}
    \cup {FetchResponse(503, JsonBody("object", {"x"}, c, DUndefined)) :
            c \in {"SOME_OTHER_CODE", UndefinedCode, "PROVIDER_ERROR",
                   "RATE_LIMIT_EXCEEDED", "INVALID_API_KEY", "TEMPLATE_NOT_FOUND"}}
    \cup {FetchRejection(PlainError("AbortError", {"The operation was aborted"}))}

HistoryConfigs ==
    {cfg \in Configs("http") :
        /\ cfg.apiKey = {"key"} /\ cfg.timeout = {}
        /\ cfg.retryAttempts \in {{}, {1}, {2}}
        /\ cfg.retryDelay \in {{}, {100}}}

HistHttpRequest(options) == HttpRequest(options) /\ UNCHANGED attempts

\* makeRequest settles on outcome o, which is appended to the history
HistAttemptSettles(o) ==
    /\ HttpAttemptSettles(o)
    /\ attempts' = Append(attempts, SettledBy(NewAttempt("http"), o))

HistSleepDone == HttpSleepDone /\ UNCHANGED attempts

InitHistory ==
    /\ transport = "http"
    /\ config \in HistoryConfigs
    /\ client = Construct(transport, config)
    /\ InitCall
    /\ cin = NoInput
    /\ cout = NoOutput
    /\ InitSide

NextHistory ==
    \/ \E options \in CallTimeouts : HistHttpRequest(options) /\ UNCHANGED eventFrame
    \/ \E o \in HistoryOutcomes : HistAttemptSettles(o) /\ UNCHANGED eventFrame
    \/ HistSleepDone /\ UNCHANGED eventFrame

SpecHistory == InitHistory /\ [][NextHistory]_vars

---------------------------------------------------------------------------
(* part_001: HuefyClient.validateSendEmailInput, sendEmail, sendBulkEmails *)

\* a templateKey argument: typeof, .length and .trim().length
TemplateKey(tag, length, trimmed) == [tag |-> tag, length |-> length, trimmed |-> trimmed]

\* a data argument: its type (an array is an object for typeof) and the
\* typeof of the values of its entries
EmailData(tag, valueTypes) == [tag |-> tag, valueTypes |-> valueTypes]

\* a recipient argument: typeof, .length and the characters, where "a" is a
\* run of characters other than white space, '@' and '.' and " " is white space
Recipient(tag, chars, length) == [tag |-> tag, chars |-> chars, length |-> length]

\* a character [^\s@] of the e-mail pattern
NotSpaceOrAt(ch) == ch \notin {" ", "@"}

\* isValidEmail: /^[^\s@]+@[^\s@]+\.[^\s@]+$/.test(email)
isValidEmail(chars) ==
    \E i \in 1..Len(chars), j \in 1..Len(chars) :
        /\ chars[i] = "@" /\ chars[j] = "."
        /\ 1 < i /\ i + 1 < j /\ j < Len(chars)
        /\ \A k \in 1..Len(chars) : k \notin {i} => NotSpaceOrAt(chars[k])

\* validateSendEmailInput (part_001 452-497): the first check that fails throws
validateSendEmailInput(templateKey, data, recipient) ==
    IF templateKey.tag # "string" \/ templateKey.length = 0
    THEN Raises(ValidationError({"Template key is required and must be a string"},
                                DUndefined))
    ELSE IF templateKey.trimmed = 0
    THEN Raises(ValidationError({"Template key cannot be empty"}, DUndefined))
    ELSE IF templateKey.length > 100
    THEN Raises(ValidationError({"Template key cannot exceed 100 characters"},
                                DUndefined))
    ELSE IF data.tag \notin {"object", "array"}
    THEN Raises(ValidationError({"Data is required and must be an object"}, DUndefined))
    ELSE IF data.tag = "array"
    THEN Raises(ValidationError({"Data must be an object, not an array"}, DUndefined))
    ELSE IF \E t \in data.valueTypes : t # "string"
    THEN Raises(ValidationError({"Data value for key must be a string, got "},
                                DUndefined))
    ELSE IF recipient.tag # "string" \/ recipient.length = 0
    THEN Raises(ValidationError({"Recipient is required and must be a string"},
                                DUndefined))
    ELSE IF ~isValidEmail(recipient.chars)
    THEN Raises(ValidationError({"Invalid email address: "}, DUndefined))
    ELSE IF recipient.length > 254
    THEN Raises(ValidationError({"Email address cannot exceed 254 characters"},
                                DUndefined))
    ELSE Returns(Null)

\* what a callback throws when it throws
CallbackError == PlainError("Error", {"callback failed"})

\* `error instanceof HuefyError ? error : new HuefyError(error instanceof Error
\*  ? error.message : String(error), 'UNEXPECTED_ERROR')`
ToHuefyError(error) ==
    IF InstanceOfHuefyError(error) THEN error
    ELSE HuefyError(IF InstanceOfError(error) THEN error.message ELSE {"null"},
                    "UNEXPECTED_ERROR", NoStatus, DUndefined)

\* `this.callbacks?.name?.(...)`: the invocation is recorded if the callback exists
Invoked(events, name) ==
    IF callbacks[name] = "absent" THEN events ELSE Append(events, name)

\* a sendEmail invocation: where it stands, its arguments, the callbacks it
\* invoked and the steps of its transport call in order, and its result
NotSent ==
    [pc |-> "idle",
     input |-> [templateKey |-> TemplateKey("undefined", 0, 0),
                data |-> EmailData("undefined", {}),
                recipient |-> Recipient("undefined", <<>>, 0)],
     events |-> <<>>,
     result |-> Returns(Null)]

\* the catch block of sendEmail (part_001 298-307)
SendEmailCatch(s, error) ==
    LET huefyError == ToHuefyError(error) IN
    [s EXCEPT !.pc = "threw",
              !.events = Invoked(s.events, "onSendError"),
              !.result = IF callbacks.onSendError = "throws"
                         THEN Raises(CallbackError) ELSE Raises(huefyError)]

\* a sendEmail that validates inside its try block
SendEmailEnterValidatesInTry(input) ==
    LET s == [NotSent EXCEPT !.input = input]
        v == validateSendEmailInput(input.templateKey, input.data, input.recipient)
    IN  IF v.raised
        THEN SendEmailCatch([s EXCEPT !.events = Invoked(s.events, "onSendStart")],
                            v.val)
        ELSE [s EXCEPT !.pc = "awaiting", !.events = Invoked(s.events, "onSendStart")]

\* sendEmail from its entry to `await this.http.post(...)` (part_001 270-292)
SendEmailEnter(input) ==
    LET s == [NotSent EXCEPT !.input = input]
        v == validateSendEmailInput(input.templateKey, input.data, input.recipient)
        started == [s EXCEPT !.events = Invoked(s.events, "onSendStart")]
    IN  IF v.raised
        THEN [s EXCEPT !.pc = "threw", !.result = v]
        ELSE IF callbacks.onSendStart = "throws"
        THEN SendEmailCatch(started, CallbackError)
        ELSE [started EXCEPT !.pc = "awaiting"]

\* sendEmail after http.post has settled with outcome o (part_001 292-307)
SendEmailResume(s, o) ==
    IF o.how = "returned"
    THEN LET succeeded == [s EXCEPT !.events = Invoked(s.events, "onSendSuccess")] IN
         IF callbacks.onSendSuccess = "throws"
         THEN SendEmailCatch(succeeded, CallbackError)
         ELSE [succeeded EXCEPT !.pc = "returned", !.result = Returns(o.val.data)]
    ELSE SendEmailCatch(s, o.val)

\* the step of the transport call that a sendEmail records
Stepped(s, step) == [s EXCEPT !.events = Append(@, step)]

\* sendEmail(...) is invoked as invocation i; http.post runs up to its first await
SendEmail(i, input) ==
    /\ i \in DOMAIN sends /\ sends[i].pc = "idle"
    /\ bulk.pc = "idle"
    /\ LET s == SendEmailEnter(input)
           l == RequestEnter({})
       IN  IF s.pc = "awaiting"
           THEN /\ calls' = [calls EXCEPT ![i] = l]
                /\ sends' = [sends EXCEPT ![i] =
                                IF l.pc = "call" THEN Stepped(s, "attempt") ELSE s]
           ELSE /\ sends' = [sends EXCEPT ![i] = s]
                /\ calls' = calls
    /\ UNCHANGED <<loopVars, attempts, retryableStatusCodes, returned, callbacks, bulk>>

\* the attempt of invocation i settles with transport outcome o
SendAttemptSettles(i, o) ==
    /\ i \in DOMAIN sends /\ sends[i].pc = "awaiting" /\ calls[i].pc = "call"
    /\ LET l == RequestAttemptSettles(calls[i], o) IN
       /\ calls' = [calls EXCEPT ![i] = l]
       /\ sends' = [sends EXCEPT ![i] =
                       Stepped(sends[i], IF l.pc = "returned" THEN "answered"
                                         ELSE "failed")]
    /\ UNCHANGED <<loopVars, attempts, retryableStatusCodes, returned, callbacks, bulk>>

\* the backoff sleep of invocation i is over
SendSleepDone(i) ==
    /\ i \in DOMAIN sends /\ sends[i].pc = "awaiting" /\ calls[i].pc = "sleep"
    /\ LET l == RequestSleepDone(calls[i]) IN
       /\ calls' = [calls EXCEPT ![i] = l]
       /\ sends' = [sends EXCEPT ![i] =
                       IF l.pc = "call" THEN Stepped(sends[i], "attempt") ELSE sends[i]]
    /\ UNCHANGED <<loopVars, attempts, retryableStatusCodes, returned, callbacks, bulk>>

\* http.post has settled: sendEmail goes on after its await
SendEmailResumes(i) ==
    /\ i \in DOMAIN sends /\ sends[i].pc = "awaiting"
    /\ calls[i].pc \in {"returned", "threw"}
    /\ sends' = [sends EXCEPT ![i] = SendEmailResume(sends[i], calls[i].outcome)]
    /\ UNCHANGED <<loopVars, attempts, calls, retryableStatusCodes, returned,
                   callbacks, bulk>>

(* the arguments and the callbacks a caller can pass *)

GoodKey == TemplateKey("string", 13, 13)
GoodData == EmailData("object", {"string"})
GoodRecipient == Recipient("string", <<"a", "@", "a", ".", "a">>, 16)

TemplateKeys ==
    {GoodKey, TemplateKey("string", 100, 100), TemplateKey("string", 101, 101),
     TemplateKey("string", 0, 0), TemplateKey("string", 3, 0),
     TemplateKey("undefined", 0, 0), TemplateKey("number", 0, 0)}

EmailDatas ==
    {GoodData, EmailData("object", {}), EmailData("object", {"string", "number"}),
     EmailData("array", {"string"}), EmailData("null", {}),
     EmailData("undefined", {}), EmailData("string", {})}

Recipients ==
    {GoodRecipient,
     Recipient("string", <<"a", "@", "a", ".", "a">>, 254),
     Recipient("string", <<"a", "@", "a", ".", "a">>, 255),
     Recipient("string", <<"a", ".", "a", "@", "a", ".", "a", ".", "a">>, 20),
     Recipient("string", <<"a", "@", "a">>, 9),
     Recipient("string", <<"a", "@", "@", "a", ".", "a">>, 9),
     Recipient("string", <<"a", " ", "a", "@", "a", ".", "a">>, 12),
     Recipient("string", <<"@", "a", ".", "a">>, 6),
     Recipient("string", <<"a", "@", ".", "a">>, 6),
     Recipient("string", <<"a", "@", "a", ".">>, 6),
     Recipient("string", <<>>, 0),
     Recipient("undefined", <<>>, 0), Recipient("number", <<>>, 0)}

GoodInput == [templateKey |-> GoodKey, data |-> GoodData, recipient |-> GoodRecipient]

\* the arguments of a sendEmail invocation: at most one of them is off
SendInputs ==
    {[GoodInput EXCEPT !.templateKey = k] : k \in TemplateKeys}
    \cup {[GoodInput EXCEPT !.data = d] : d \in EmailDatas}
    \cup {[GoodInput EXCEPT !.recipient = r] : r \in Recipients}

\* no callbacks; all four, none throwing; all four, one of them throwing
CallbackSets ==
    {NoCallbacks,
     [n \in DOMAIN NoCallbacks |-> "returns"]}
    \cup {[n \in DOMAIN NoCallbacks |-> IF n = t THEN "throws" ELSE "returns"] :
            t \in {"onSendStart", "onSendSuccess", "onSendError"}}

InitSend ==
    /\ transport = "http"
    /\ config \in EventConfigs(transport)
    /\ client = Construct(transport, config)
    /\ InitCall
    /\ cin = NoInput
    /\ cout = NoOutput
    /\ attempts = <<>>
    /\ retryableStatusCodes = DefaultRetryableStatusCodes(transport)
    /\ returned = NotReturned
    /\ callbacks \in CallbackSets
    /\ sends = <<NotSent>>
    /\ calls = <<NotCalled>>
    /\ bulk = NotBulk

NextSend ==
    \/ \E input \in SendInputs : SendEmail(1, input)
    \/ \E o \in ConcurrentOutcomes : SendAttemptSettles(1, o)
    \/ SendSleepDone(1)
    \/ SendEmailResumes(1)

SpecSend == InitSend /\ [][NextSend]_vars

(* HuefyClient.validateTemplate *)

\* 'test@huefy.com'
TestRecipient == Recipient("string", <<"a", "@", "a", ".", "a">>, 14)

\* the values true and false
BooleanValue(b) ==
    [Null EXCEPT !.cls = "boolean", !.message = IF b THEN {"true"} ELSE {"false"}]

\* what validateTemplate returns once its `await this.sendEmail(...)` has
\* settled with result r (part_001 419-429)
validateTemplate(r) ==
    IF ~r.raised THEN TRUE
    ELSE IF InstanceOfHuefyError(r.val)
    THEN r.val.code \notin {"TEMPLATE_NOT_FOUND", "INVALID_TEMPLATE_DATA"}
    ELSE FALSE

\* validateTemplate(templateKey, testData) is invoked: sendEmail runs up to
\* its first await
ValidateTemplate(templateKey, testData) ==
    /\ cout = NoOutput
    /\ SendEmail(1, [templateKey |-> templateKey, data |-> testData,
                     recipient |-> TestRecipient])

\* sendEmail has settled: validateTemplate goes on after its await and returns
ValidateTemplateReturns ==
    /\ cout = NoOutput
    /\ sends[1].pc \in {"returned", "threw"}
    /\ cout' = Returns(BooleanValue(validateTemplate(sends[1].result)))
    /\ UNCHANGED <<transport, config, client, pc, callTimeout, attempt, lastError,
                   exchanges, sleeps, labels, lastRaw, outcome, cin, sideVars>>

ValidateOutcomes ==
    {FetchResponse(200, SuccessBody),
     FetchResponse(404, JsonBody("object", {"x"}, "TEMPLATE_NOT_FOUND", DUndefined)),
     FetchResponse(400, JsonBody("object", {"x"}, "INVALID_TEMPLATE_DATA", DUndefined)),
     FetchResponse(400, JsonBody("object", {"x", "fetch"}, "INVALID_TEMPLATE_DATA",
                                 DUndefined)),
     FetchResponse(401, JsonBody("object", {"x"}, "INVALID_API_KEY", DUndefined)),
     FetchRejection(PlainError("AbortError", {"The user aborted a request."}))}

NextValidate ==
    \/ \E k \in TemplateKeys, d \in EmailDatas : ValidateTemplate(k, d)
    \/ \E o \in ValidateOutcomes : SendAttemptSettles(1, o)
    \/ SendSleepDone(1)
    \/ SendEmailResumes(1)
    \/ ValidateTemplateReturns

SpecValidate == InitSend /\ [][NextValidate]_vars

(* HuefyClient.sendBulkEmails *)

MaxEmails == 2

\* `emails.length > 100`
BulkLimit == 100

\* the emails argument: whether it is an array, its .length and its elements
\* (of an array longer than MaxEmails, the first elements)
BulkArgument(isArray, items, length) ==
    [isArray |-> isArray, items |-> items, length |-> length]

\* what one element of the array passed to Promise.allSettled settles to: the
\* async callback returns from its try or from its catch and never throws
BulkEntry(email, result) ==
    IF ~result.raised
    THEN [status |-> "fulfilled",
          value |-> [email |-> email.recipient, success |-> TRUE,
                     result |-> result.val, error |-> Null]]
    ELSE [status |-> "fulfilled",
          value |-> [email |-> email.recipient, success |-> FALSE,
                     result |-> Null, error |-> ToHuefyError(result.val)]]

\* a callback without the try / catch: a failed send rejects its promise
BulkEntryUncaught(email, result) ==
    IF ~result.raised
    THEN [status |-> "fulfilled",
          value |-> [email |-> email.recipient, success |-> TRUE,
                     result |-> result.val, error |-> Null]]
    ELSE [status |-> "rejected", value |-> result.val]

\* the sendEmail invocations that emails.map starts, each running up to its
\* first await, and the HttpClient.request invocations they start
MappedSends(items) ==
    [i \in 1..Len(items) |->
        LET s == SendEmailEnter(items[i]) IN
        IF s.pc = "awaiting" /\ RequestEnter({}).pc = "call"
        THEN Stepped(s, "attempt") ELSE s]

MappedCalls(items) ==
    [i \in 1..Len(items) |->
        IF SendEmailEnter(items[i]).pc = "awaiting"
        THEN RequestEnter({}) ELSE NotCalled]

\* a sendBulkEmails without the check of the maximum
SendBulkEmailsNoLimit(arg) ==
    /\ bulk.pc = "idle" /\ sends = <<>>
    /\ IF ~arg.isArray \/ arg.length = 0
       THEN /\ bulk' = [pc |-> "rejected", isArray |-> arg.isArray,
                        length |-> arg.length, emails |-> arg.items,
                        result |-> Raises(ValidationError(
                            {"Emails array is required and must not be empty"},
                            DUndefined))]
            /\ UNCHANGED <<sends, calls>>
       ELSE /\ bulk' = [pc |-> "running", isArray |-> arg.isArray,
                        length |-> arg.length, emails |-> arg.items,
                        result |-> Returns(<<>>)]
            /\ sends' = MappedSends(arg.items)
            /\ calls' = MappedCalls(arg.items)
    /\ UNCHANGED <<loopVars, attempts, retryableStatusCodes, returned, callbacks>>

\* sendBulkEmails is invoked: the checks on the array, then emails.map starts
\* every sendEmail in turn
SendBulkEmails(arg) ==
    /\ bulk.pc = "idle" /\ sends = <<>>
    /\ IF ~arg.isArray \/ arg.length = 0
       THEN /\ bulk' = [pc |-> "rejected", isArray |-> arg.isArray,
                        length |-> arg.length, emails |-> arg.items,
                        result |-> Raises(ValidationError(
                            {"Emails array is required and must not be empty"},
                            DUndefined))]
            /\ UNCHANGED <<sends, calls>>
       ELSE IF arg.length > BulkLimit
       THEN /\ bulk' = [pc |-> "rejected", isArray |-> arg.isArray,
                        length |-> arg.length, emails |-> arg.items,
                        result |-> Raises(ValidationError(
                            {"Maximum 100 emails allowed per bulk request"},
                            DUndefined))]
            /\ UNCHANGED <<sends, calls>>
       ELSE /\ bulk' = [pc |-> "running", isArray |-> arg.isArray,
                        length |-> arg.length, emails |-> arg.items,
                        result |-> Returns(<<>>)]
            /\ sends' = MappedSends(arg.items)
            /\ calls' = MappedCalls(arg.items)
    /\ UNCHANGED <<loopVars, attempts, retryableStatusCodes, returned, callbacks>>

\* a sendBulkEmails built on Promise.all over callbacks without a catch
BulkSettlesAll ==
    /\ bulk.pc = "running"
    /\ \A i \in DOMAIN sends : sends[i].pc \in {"returned", "threw"}
    /\ LET settled == [i \in DOMAIN sends |->
                          BulkEntryUncaught(bulk.emails[i], sends[i].result)]
       IN  bulk' = IF \E i \in DOMAIN settled : settled[i].status = "rejected"
                   THEN [bulk EXCEPT !.pc = "rejected",
                                     !.result = Raises(settled[
                                         CHOOSE i \in DOMAIN settled :
                                             settled[i].status = "rejected"].value)]
                   ELSE [bulk EXCEPT !.pc = "resolved",
                                     !.result = Returns([i \in DOMAIN settled |->
                                                            settled[i].value])]
    /\ UNCHANGED <<loopVars, attempts, calls, retryableStatusCodes, returned,
                   callbacks, sends>>

\* every element has settled: Promise.allSettled resolves and the results are
\* mapped to their value (or reason), in the order of the input
BulkSettles ==
    /\ bulk.pc = "running"
    /\ \A i \in DOMAIN sends : sends[i].pc \in {"returned", "threw"}
    /\ LET settled == [i \in DOMAIN sends |->
                          BulkEntry(bulk.emails[i], sends[i].result)]
       IN  bulk' = [bulk EXCEPT !.pc = "resolved",
                                !.result = Returns([i \in DOMAIN settled |->
                                                       settled[i].value])]
    /\ UNCHANGED <<loopVars, attempts, calls, retryableStatusCodes, returned,
                   callbacks, sends>>

\* the elements of the emails argument
BulkInputs ==
    {GoodInput,
     [GoodInput EXCEPT !.recipient = Recipient("string", <<"a", "@", "a">>, 9)]}

RECURSIVE SeqsUpTo(_, _)
SeqsUpTo(S, n) ==
    IF n = 0 THEN {<<>>}
    ELSE SeqsUpTo(S, n - 1)
         \cup {Append(q, x) : q \in {p \in SeqsUpTo(S, n - 1) : Len(p) = n - 1}, x \in S}

BulkArguments ==
    {BulkArgument(TRUE, items, Len(items)) : items \in SeqsUpTo(BulkInputs, MaxEmails)}
    \cup {BulkArgument(TRUE, <<GoodInput>>, BulkLimit + 1),
          BulkArgument(FALSE, <<>>, 0)}

BulkConfigs ==
    {cfg \in EventConfigs("http") : cfg.retryAttempts \in {{1}, {2}}}

InitBulk ==
    /\ transport = "http"
    /\ config \in BulkConfigs
    /\ client = Construct(transport, config)
    /\ InitCall
    /\ cin = NoInput
    /\ cout = NoOutput
    /\ attempts = <<>>
    /\ retryableStatusCodes = DefaultRetryableStatusCodes(transport)
    /\ returned = NotReturned
    /\ callbacks \in CallbackSets
    /\ sends = <<>>
    /\ calls = <<>>
    /\ bulk = NotBulk

NextBulk ==
    \/ \E arg \in BulkArguments : SendBulkEmails(arg)
    \/ \E i \in DOMAIN sends, o \in ConcurrentOutcomes : SendAttemptSettles(i, o)
    \/ \E i \in DOMAIN sends : SendSleepDone(i)
    \/ \E i \in DOMAIN sends : SendEmailResumes(i)
    \/ BulkSettles

SpecBulk == InitBulk /\ [][NextBulk]_vars

---------------------------------------------------------------------------
(* What each attempt of a call puts on the wire *)

\* the arguments of request(method, endpoint, data, options), of
\* makeGrpcRequest(method, request) and of executeKernelCommand(request)
Arguments(method, endpoint, data, options) ==
    [method |-> method, endpoint |-> endpoint, data |-> data, options |-> options]

\* JSON.stringify(value)
Stringify(value) == <<"json", value>>

NoPayload == <<"none", Undefined>>

\* the request one attempt sends: makeRequest builds requestInit and calls
\* fetch(url, requestInit); executeGrpcCall calls this.client[method] with a
\* deadline; spawnKernelProcess spawns the binary and writes the request
Wire(t, args, timeout) ==
    CASE t = "http" ->
           [method |-> args.method,
            target |-> <<"baseUrl", args.endpoint>>,
            payload |-> IF args.method = "POST" /\ args.data # Undefined
                        THEN Stringify(args.data) ELSE NoPayload,
            timeout |-> timeout]
      [] t = "grpc" ->
           [method |-> "rpc",
            target |-> <<"client", args.method>>,
            payload |-> <<"message", args.data>>,
            timeout |-> timeout]
      [] OTHER ->
           [method |-> "spawn",
            target |-> <<"kernelBinaryPath", "">>,
            payload |-> Stringify(<<args.method, args.data>>),
            timeout |-> timeout]

\* the timeout an attempt works with: the `timeout` local of request(), or
\* this.timeout read by executeGrpcCall and spawnKernelProcess
AttemptTimeout == IF transport = "http" THEN callTimeout' ELSE client.timeout

\* a loop whose attempts share one time budget: what was slept is taken off
ReqSentSharedBudget ==
    attempts' = IF pc' = "call"
                THEN Append(attempts,
                            Wire(transport, cin, AttemptTimeout - Len(sleeps')))
                ELSE attempts
\* the loop body runs once more: the attempt sends its request
ReqSent ==
    attempts' = IF pc' = "call"
                THEN Append(attempts, Wire(transport, cin, AttemptTimeout))
                ELSE attempts

ReqHttpRequest == HttpRequest(cin.options) /\ ReqSent
ReqHttpSleepDone == HttpSleepDone /\ ReqSent
ReqGrpcRequest == GrpcMakeGrpcRequest /\ ReqSent
ReqGrpcSleepDone == GrpcSleepDone /\ ReqSent
ReqKernelCommand == KernelExecuteKernelCommand /\ ReqSent
ReqKernelSleepDone == KernelSleepDone /\ ReqSent

\* post(endpoint, data, options) and get(endpoint, options); the RPCs; the
\* commands of the kernel binary
CallArguments(t) ==
    CASE t = "http" ->
           {Arguments("POST", "/emails/send", d, o) :
                d \in {Undefined, {"email"}}, o \in CallTimeouts}
           \cup {Arguments("GET", "/health", Undefined, o) : o \in CallTimeouts}
      [] t = "grpc" ->
           {Arguments("SendEmail", "", {"email"}, {}),
            Arguments("HealthCheck", "", {}, {})}
      [] OTHER ->
           {Arguments("sendEmail", "", {"email"}, {}),
            Arguments("healthCheck", "", Undefined, {})}

RequestConfigs(t) ==
    {cfg \in EventConfigs(t) : cfg.retryAttempts \in {{}, {1}, {2}}}

InitRequests ==
    /\ transport \in Transports
    /\ config \in RequestConfigs(transport)
    /\ client = Construct(transport, config)
    /\ InitCall
    /\ cin \in CallArguments(transport)
    /\ cout = NoOutput
    /\ InitSide

NextRequests ==
    \/ ReqHttpRequest /\ UNCHANGED eventFrame
    \/ \E o \in HttpOutcomes : HttpAttemptSettles(o) /\ UNCHANGED sideVars
    \/ ReqHttpSleepDone /\ UNCHANGED eventFrame
    \/ ReqGrpcRequest /\ UNCHANGED eventFrame
    \/ \E o \in GrpcOutcomes : GrpcCallSettles(o) /\ UNCHANGED sideVars
    \/ ReqGrpcSleepDone /\ UNCHANGED eventFrame
    \/ ReqKernelCommand /\ UNCHANGED eventFrame
    \/ \E o \in KernelOutcomes : KernelProcessSettles(o) /\ UNCHANGED sideVars
    \/ ReqKernelSleepDone /\ UNCHANGED eventFrame

SpecRequests == InitRequests /\ [][NextRequests]_vars

---------------------------------------------------------------------------
(* Properties of the retry loops *)

MaxAttempts == client.retryConfig.maxAttempts

AllRetryable(ls) == \A i \in 1..Len(ls) : ls[i] = "retryable"

\* the error the call surfaces when its last attempt delivered raw outcome o
SurfacedError(o) ==
    CASE transport = "http" -> makeRequest(o, callTimeout, client.timeout).val
      [] transport = "grpc" ->
            convertGrpcError(executeGrpcCall(o).val, client.timeout)
      [] OTHER ->
            convertError(spawnKernelProcess(o, client.timeout).val, client.timeout)

\* the response the call returns when its last attempt delivered raw outcome o
DeliveredResponse(o) ==
    CASE transport = "http" -> makeRequest(o, callTimeout, client.timeout).val
      [] transport = "grpc" -> executeGrpcCall(o).val
      [] OTHER -> spawnKernelProcess(o, client.timeout).val

\* C1: in each of the three retry loops, with maxAttempts = N >= 1, a call all
\* of whose attempts fail with a retryable failure makes exactly N exchanges
\* and only then fails, with the error of the N-th attempt.
C1_ExhaustsAllAttempts ==
    (MaxAttempts >= 1 /\ Len(labels) >= 1 /\ AllRetryable(labels)) =>
        /\ pc = "threw" =>
              /\ exchanges = MaxAttempts
              /\ Len(labels) = MaxAttempts
              /\ outcome = ThrownTo(SurfacedError(lastRaw))
        /\ pc # "threw" =>
              /\ exchanges <= MaxAttempts
              /\ outcome = NoOutcome

C1_Witness ==
    /\ MaxAttempts = 3 /\ pc = "threw" /\ exchanges = 3
    /\ labels = <<"retryable", "retryable", "retryable">>
    /\ transport = "kernel"

\* C2: when attempts 1..k-1 fail with retryable failures and attempt k
\* succeeds (k <= N), the call returns the response of attempt k after exactly
\* k exchanges.
C2_SuccessShortCircuits ==
    (Len(labels) >= 1 /\ labels[Len(labels)] = "success") =>
        /\ pc = "returned"
        /\ outcome = [how |-> "returned", val |-> DeliveredResponse(lastRaw)]
        /\ exchanges = Len(labels)
        /\ exchanges <= MaxAttempts
        /\ AllRetryable(SubSeq(labels, 1, Len(labels) - 1))
        /\ ~ENABLED Next

C2_Witness ==
    /\ pc = "returned" /\ exchanges = 2 /\ MaxAttempts = 3
    /\ labels = <<"retryable", "success">>
    /\ transport = "http"

\* the kinds the taxonomy lists as never retried
NonRetryableKinds ==
    {"Authentication", "TemplateNotFound", "InvalidTemplateData",
     "InvalidRecipient", "Validation"}

ClassifiedFailure ==
    CASE transport = "http" -> lastError
      [] transport = "grpc" -> convertGrpcError(lastError, client.timeout)
      [] OTHER -> convertError(lastError, client.timeout)

\* the retryable set of the retry policy: Network, Timeout, RateLimit (the
\* kind of statusCode 429), and any kind with statusCode >= 500
RetryableByPolicy(e) ==
    \/ KindOf(e) \in {"Network", "Timeout", "RateLimit"}
    \/ e.statusCode = 429
    \/ e.statusCode >= 500

FailedBeforeLastAttempt ==
    /\ client.ok
    /\ Len(labels) >= 1 /\ labels[Len(labels)] # "success"
    /\ pc \in {"sleep", "threw"}
    /\ attempt < MaxAttempts

\* C4: on every transport a failed attempt numbered attempt < maxAttempts is
\* followed by another attempt if and only if the classified kind of the
\* failure is Network, Timeout or RateLimit, or its statusCode is >= 500.
C4_RetryIffPolicyRetryable ==
    FailedBeforeLastAttempt => ((pc = "sleep") <=> RetryableByPolicy(ClassifiedFailure))

\* the kind the classification function gives the failure the remote side
\* (or the child process) reported on the last attempt
ReportedKind ==
    IF /\ transport = "http" /\ lastRaw.type = "response"
       /\ ~ResponseOk(lastRaw.status)
       /\ lastRaw.body.shape \in {"object", "primitive"}
    THEN KindOf(createErrorFromResponse(lastRaw.body, lastRaw.status).val)
    ELSE KindOf(ClassifiedFailure)

\* C5: a failure whose kind is Authentication, TemplateNotFound,
\* InvalidTemplateData, InvalidRecipient or Validation is never followed by
\* another attempt, on any transport, whatever message text it carries.
C5_ListedKindsNeverRetried ==
    (Len(labels) >= 1 /\ labels[Len(labels)] # "success"
        /\ ReportedKind \in NonRetryableKinds)
    => pc = "threw"

\* the closed form of the backoff before attempt k + 1
ExpectedDelay(k) ==
    LET rc == client.retryConfig
        grown == rc.initialDelay * Pow(rc.backoffMultiplier, k - 1)
    IN  IF grown < rc.maxDelay THEN grown ELSE rc.maxDelay

\* C6: the sleep between attempt k and attempt k + 1 is exactly
\* min(initialDelay * backoffMultiplier^(k-1), maxDelay), for every k, and
\* every attempt after the first is preceded by exactly one such sleep.
C6_BackoffIsExact ==
    (client.ok /\ client.retryConfig.initialDelay >= 0) =>
        /\ \A k \in 1..Len(sleeps) : sleeps[k] = ExpectedDelay(k)
        /\ pc = "sleep" => Len(sleeps) = attempt
        /\ pc = "call" => Len(sleeps) = attempt - 1

C6_Witness ==
    /\ pc = "call" /\ attempt = 3
    /\ client.retryConfig.initialDelay = 6000
    /\ sleeps = <<6000, 10000>>

---------------------------------------------------------------------------
(* Properties of the classification functions *)

\* the mapping table: the statusCode that goes with each kind
StatusOfKind(kind) ==
    CASE kind = "Authentication" -> 401
      [] kind = "TemplateNotFound" -> 404
      [] kind \in {"InvalidTemplateData", "InvalidRecipient", "Validation"} -> 400
      [] kind \in {"Provider", "Internal"} -> 500
      [] kind = "RateLimit" -> 429
      [] OTHER -> NoStatus

\* a classification run has produced an error of the taxonomy
ProducedError ==
    /\ pc = "classified"
    /\ InstanceOfHuefyError(cout.val)

\* C7: every error a classification path produces has the statusCode the
\* mapping table gives its kind; no error with statusCode 429 has a kind
\* other than RateLimit.
C7_StatusMatchesKind ==
    ProducedError =>
        /\ cout.val.statusCode = StatusOfKind(KindOf(cout.val))
        /\ cout.val.statusCode = 429 => KindOf(cout.val) = "RateLimit"

\* the six remote codes createErrorFromResponse knows: class, kind, statusCode
KnownCodes ==
    [INVALID_API_KEY |-> <<"AuthenticationError", "Authentication", 401>>,
     TEMPLATE_NOT_FOUND |-> <<"TemplateNotFoundError", "TemplateNotFound", 404>>,
     INVALID_TEMPLATE_DATA |->
        <<"InvalidTemplateDataError", "InvalidTemplateData", 400>>,
     INVALID_RECIPIENT |-> <<"InvalidRecipientError", "InvalidRecipient", 400>>,
     PROVIDER_ERROR |-> <<"ProviderError", "Provider", 500>>,
     RATE_LIMIT_EXCEEDED |-> <<"RateLimitError", "RateLimit", 429>>]

ClassifiedKnownPayload ==
    /\ pc = "classified" /\ cin.fn = "createErrorFromResponse"
    /\ cin.raw.body.shape = "object"
    /\ cin.raw.body.code \in DOMAIN KnownCodes

\* C8: createErrorFromResponse on a payload {error, code, details} with one
\* of the six known codes yields the corresponding kind, that same code and
\* the table's statusCode, and every key of the payload's details is in the
\* error's details with the same value.
C8_KnownPayloadRoundTrip ==
    ClassifiedKnownPayload =>
        LET data == cin.raw.body
            row == KnownCodes[data.code]
            e == cout.val
        IN  /\ ~cout.raised
            /\ e.cls = row[1]
            /\ KindOf(e) = row[2]
            /\ e.code = data.code
            /\ e.statusCode = row[3]
            /\ \A k \in DOMAIN data.details.obj :
                  /\ e.details.tag = "object"
                  /\ k \in DOMAIN e.details.obj
                  /\ e.details.obj[k] = data.details.obj[k]

C8_Witness ==
    /\ ClassifiedKnownPayload
    /\ cin.raw.body.code = "TEMPLATE_NOT_FOUND"
    /\ cin.raw.body.details = DObject([template_key |-> {"t"}])
    /\ cin.status = 500
    /\ cout.val.statusCode = 404
    /\ cout.val.details.obj["template_key"] = {"t"}

\* C9: every failure of a public call reaches the caller as one HuefyError;
\* a raw transport error, a plain Error or null never does.
C9_OnlyHuefyErrorsThrown ==
    pc = "threw" => InstanceOfHuefyError(outcome.val)

\* the input is one the function has no case for (the RPC status table is
\* total: its last row sends every other code to Network)
Unrecognized ==
    CASE cin.fn = "createErrorFromResponse" ->
            cin.raw.body.code \notin DOMAIN KnownCodes
      [] cin.fn = "convertGrpcError" -> cin.raw.err.cls = "null"
      [] cin.fn = "convertError" ->
            /\ ~InstanceOfHuefyError(cin.raw.err)
            /\ cin.raw.err.message \cap
                 {"API key", "template", "rate limit", "timeout", "network",
                  "connection"} = {}
      [] OTHER -> FALSE

\* C10: the classification functions never raise, for any input, and classify
\* a failure they do not recognize as Unknown or Internal.
C10_ClassifyNeverRaises ==
    (pc = "classified" /\ cin.fn # "makeRequest") =>
        /\ ~cout.raised
        /\ Unrecognized => KindOf(cout.val) \in {"Unknown", "Internal"}

---------------------------------------------------------------------------
(* Properties of GrpcClient.convertGrpcError *)

\* the code table of the specification: RPC status code -> kind
GrpcKindTable(code) ==
    CASE code = 16 -> "Authentication"
      [] code = 5 -> "TemplateNotFound"
      [] code = 8 -> "RateLimit"
      [] code = 14 -> "Provider"
      [] code = 4 -> "Timeout"
      [] code = 3 -> "Validation"
      [] code = 13 -> "Internal"
      [] OTHER -> "Network"

\* convertGrpcError has been applied to a failure that carries an RPC status
ConvertedRpcStatus ==
    /\ pc = "classified" /\ cin.fn = "convertGrpcError"
    /\ cin.raw.err.cls = "ServiceError"

\* C11 (as stated): convertGrpcError maps UNAUTHENTICATED, NOT_FOUND,
\* RESOURCE_EXHAUSTED, UNAVAILABLE, DEADLINE_EXCEEDED, INVALID_ARGUMENT and
\* INTERNAL to their kinds and every other status code to Network.
C11_GrpcTableAsStated ==
    ConvertedRpcStatus =>
        /\ ~cout.raised
        /\ KindOf(cout.val) = GrpcKindTable(cin.raw.err.rpcCode)

\* C11 (amended): the same table with one more row, PERMISSION_DENIED ->
\* Authentication; every status code outside the eight rows maps to Network.
C11_GrpcTableWithPermissionDenied ==
    ConvertedRpcStatus =>
        /\ ~cout.raised
        /\ KindOf(cout.val) =
              IF cin.raw.err.rpcCode = 7 THEN "Authentication"
              ELSE GrpcKindTable(cin.raw.err.rpcCode)

C11_Witness ==
    /\ ConvertedRpcStatus
    /\ cin.raw.err.rpcCode = 14
    /\ cout.val.cls = "ProviderError"
    /\ KindOf(cout.val) = "Provider"

---------------------------------------------------------------------------
(* Properties of the attempts: deadlines, timeouts, child processes *)

\* the deadline of attempt k triggered while the attempt was in flight
DeadlineTriggered(k) == attempts[k].timeoutId = "fired"

\* C12: when the deadline triggers during an attempt, the call fails at once
\* with kind Timeout: that attempt is the call's last, no further attempt is
\* started and no backoff sleep follows.
C12_DeadlineFailsCallAtOnce ==
    \A k \in 1..Len(attempts) :
        DeadlineTriggered(k) =>
            /\ pc = "threw"
            /\ KindOf(outcome.val) = "Timeout"
            /\ Len(attempts) = k
            /\ Len(sleeps) = k - 1


\* C13: every call terminates: it returns a response or fails with an error,
\* whatever the remote side or the child process does.
C13_EveryCallTerminates == <>(pc \in {"returned", "threw"})


\* the last HTTP attempt has failed
HttpAttemptFailed ==
    /\ transport = "http" /\ Len(attempts) >= 1 /\ Current.settled
    /\ labels[Len(labels)] # "success"

\* C14: an HTTP attempt whose deadline expired fails with a TimeoutError
\* (code TIMEOUT_ERROR), never with a NetworkError, and an attempt that failed
\* on the connection without its deadline expiring never fails with a
\* TimeoutError.
C14_TimeoutDistinctFromNetwork ==
    /\ (transport = "http" /\ Len(attempts) >= 1 /\ Current.timeoutId = "fired") =>
          /\ HttpAttemptFailed
          /\ lastError.cls = "TimeoutError"
          /\ lastError.code = "TIMEOUT_ERROR"
          /\ KindOf(lastError) # "Network"
    /\ (HttpAttemptFailed /\ Current.timeoutId # "fired") =>
          /\ lastError.cls # "TimeoutError"
          /\ KindOf(lastError) # "Timeout"

C14_Witness ==
    /\ HttpAttemptFailed /\ Len(attempts) = 2
    /\ attempts[1].timeoutId = "fired"
    /\ attempts[2].timeoutId = "cleared" /\ attempts[2].by.type = "reject"
    /\ lastError.cls = "NetworkError"


---------------------------------------------------------------------------
(* Properties of HttpClient.makeRequest on responses *)

\* makeRequest has been applied to a response
AttemptOnResponse ==
    /\ pc = "classified" /\ cin.fn = "makeRequest"
    /\ cin.raw.type = "response"

\* a non-2xx response whose body decodes as {error, code, details}
DecodedErrorResponse ==
    /\ AttemptOnResponse
    /\ ~ResponseOk(cin.raw.status)
    /\ cin.raw.body.shape = "object"
    /\ cin.raw.body.code # UndefinedCode
    /\ cin.raw.body.error # Undefined

\* C15: makeRequest surfaces a non-2xx response with a decodable body as an
\* error carrying the decoded code, message and details, and a response whose
\* body does not decode as an error with code INVALID_RESPONSE, which is none
\* of the application-level codes.
C15_DecodedErrorIsCarried ==
    /\ DecodedErrorResponse =>
          LET data == cin.raw.body
              e == cout.val
          IN  /\ cout.raised
              /\ e.code = data.code
              /\ e.message = data.error
              /\ \A k \in DOMAIN data.details.obj :
                    /\ e.details.tag = "object"
                    /\ k \in DOMAIN e.details.obj
                    /\ e.details.obj[k] = data.details.obj[k]
    /\ (AttemptOnResponse /\ cin.raw.body.shape = "invalid") =>
          /\ cout.raised
          /\ cout.val.code = "INVALID_RESPONSE"
          /\ cout.val.code \notin RemoteCodes


C17_NoChildLeftRunning ==
    transport = "kernel" =>
        \A k \in 1..Len(attempts) :
            attempts[k].settled =>
                attempts[k].kernelProcess \in {"exited", "signalled", "unspawned"}


\* the iterations of the retry loop entered so far
IterationsEntered == Len(labels) + (IF pc = "call" THEN 1 ELSE 0)

\* C18: every attempt performs one underlying exchange (one fetch, one RPC,
\* one spawn): the exchanges started in a call are as many as the iterations
\* of its retry loop, and the loop counter numbers the latest one.
C18_OneExchangePerAttempt ==
    /\ Len(attempts) = IterationsEntered
    /\ Len(attempts) = exchanges
    /\ Len(attempts) >= 1 => attempt = Len(attempts)
    /\ \A k \in 1..Len(attempts) : k < Len(attempts) => attempts[k].settled

C18_Witness ==
    /\ transport = "http" /\ pc = "threw"
    /\ Len(attempts) = 3 /\ attempt = 3 /\ Len(sleeps) = 2
    /\ attempts[1].by.type = "reject" /\ attempts[3].by.type = "response"


---------------------------------------------------------------------------
(* Properties of concurrent calls and of the configuration *)

\* a call that wakes from its backoff sleep, if it is asleep
Awake(l) == IF l.pc = "sleep" THEN RequestSleepDone(l) ELSE l

\* the state of a call that runs alone, called with `options`, after the
\* first n of the transport outcomes `raws`
RECURSIVE RunAlone(_, _, _)
RunAlone(options, raws, n) ==
    IF n = 0 THEN RequestEnter(options)
    ELSE RequestAttemptSettles(Awake(RunAlone(options, raws, n - 1)), raws[n])

\* C19: whatever the interleaving, a call has made the attempts, and holds
\* the attempt counter, the last error and the result or error, that it
\* would have had it run alone against the transport outcomes it has met.
C19_CallsDoNotInterfere ==
    \A c \in DOMAIN calls :
        calls[c].pc # "idle" =>
            LET alone == RunAlone(calls[c].options, calls[c].raws,
                                  Len(calls[c].raws))
            IN  calls[c] \in {alone, Awake(alone)}

C19_Witness ==
    /\ DOMAIN calls = CallIds
    /\ calls[1].pc = "threw" /\ calls[1].attempt = 3
    /\ calls[1].outcome.val.cls = "TimeoutError"
    /\ calls[2].pc = "returned" /\ calls[2].attempt = 2
    /\ calls[2].callTimeout # calls[1].callTimeout


\* C20: the configuration a client was constructed with (retry configuration
\* and timeout, with the status codes its calls retry on) stays what the
\* constructor made of the HuefyConfig, whatever calls are made and whatever
\* the caller does to the object getRetryConfig() returned.
C20_ConfigurationIsFrozen ==
    /\ client = Construct(transport, config)
    /\ transport = "grpc" => retryableStatusCodes = GrpcRetryableStatusCodes


\* C21: every configuration a constructor accepts yields a retry configuration
\* with maxAttempts >= 1, initialDelay >= 0, backoffMultiplier >= 1 and
\* maxDelay >= 0, and every finished call has made at least one transport
\* attempt.
C21_AcceptedConfigIsRetryPolicy ==
    client.ok =>
        /\ client.retryConfig.maxAttempts >= 1
        /\ client.retryConfig.initialDelay >= 0
        /\ client.retryConfig.backoffMultiplier >= 1
        /\ client.retryConfig.maxDelay >= 0
        /\ pc \in {"returned", "threw"} => exchanges >= 1


\* the configurations that count as resource setup failures
SetupFails(t, cfg) ==
    \/ cfg.apiKey \in {{}, {""}, NotAString}
    \/ \E n \in cfg.timeout : n < 0
    \/ t = "kernel" /\ cfg.platform \notin {"darwin", "linux", "win32"}
    \/ cfg.baseUrl = MalformedAddress

\* C22: a missing or non-string API key, a negative timeout, an unsupported
\* platform (KernelClient) or a malformed service address makes the constructor
\* throw a HuefyError, and a client whose construction failed never performs a
\* transport exchange.
C22_SetupFailuresAtConstruction ==
    /\ SetupFails(transport, config) =>
           ~client.ok /\ InstanceOfHuefyError(client.error)
    /\ ~client.ok => exchanges = 0

\* the failure the promise of attempt k was rejected with (spawnKernelProcess)
AttemptFailure(k) == spawnKernelProcess(attempts[k].by, client.timeout)

\* the child of attempt k has closed with a non-zero exit code
ExitedNonZero(k) ==
    attempts[k].kernelProcess = "exited" /\ attempts[k].exitCode # 0

\* the 'close' event is what settled attempt k
SettledByClose(k) == attempts[k].settled /\ attempts[k].by.ev = "close"

\* C23 as stated: a subprocess attempt whose child exited with a non-zero
\* code has failed, whatever the child wrote to stdout, and its failure carries
\* the stderr content accumulated up to the exit.
C23_NonZeroExitCarriesStderr ==
    transport = "kernel" =>
        \A k \in 1..Len(attempts) :
            ExitedNonZero(k) =>
                /\ attempts[k].settled
                /\ AttemptFailure(k).raised
                /\ labels[k] # "success"
                /\ attempts[k].stderr \subseteq AttemptFailure(k).val.message

\* C23 amended: a subprocess attempt whose child exited with a non-zero code
\* has failed, whatever the child wrote to stdout; when the exit is what
\* settled the attempt, the failure is a plain Error whose message carries the
\* stderr content, and otherwise the attempt had already failed (timeout or
\* stdin write failure) and keeps that failure.
C23_NonZeroExitFails ==
    transport = "kernel" =>
        \A k \in 1..Len(attempts) :
            ExitedNonZero(k) =>
                /\ attempts[k].settled
                /\ AttemptFailure(k).raised
                /\ labels[k] # "success"
                /\ IF SettledByClose(k)
                   THEN /\ AttemptFailure(k).val.cls = "Error"
                        /\ attempts[k].stderr \subseteq AttemptFailure(k).val.message
                   ELSE attempts[k].by.ev \in {"timeout", "stdin"}

C23_Witness ==
    /\ transport = "kernel" /\ Len(attempts) = 1
    /\ ExitedNonZero(1) /\ SettledByClose(1)
    /\ attempts[1].stdout = Stdout("object", TRUE, UndefinedCode, Undefined, {})
    /\ attempts[1].stderr = {"boom"}
    /\ "boom" \in lastError.message
    /\ pc = "threw"

\* the child closed with exit code 0 and a decodable response whose success
\* flag is false
ApplicationFailure(o) ==
    o.ev = "close" /\ o.exitCode = 0 /\ o.stdout.shape = "object" /\ ~o.stdout.success

\* C24: once a subprocess attempt has ended with exit code 0 and a decoded
\* response whose success flag is false, the attempt's failure is a HuefyError
\* with the embedded code and message, the call fails with it, and the caller
\* observes that code and message.
C24_ApplicationFailureIsObserved ==
    (transport = "kernel" /\ Len(labels) >= 1 /\ ApplicationFailure(lastRaw)) =>
        /\ lastError.cls = "HuefyError"
        /\ lastError.code = OrCode(lastRaw.stdout.errCode, "KERNEL_ERROR")
        /\ lastError.message = OrText(lastRaw.stdout.errMessage, {"Unknown kernel error"})
        /\ pc = "threw"
        /\ outcome.val.code = lastError.code
        /\ outcome.val.message = lastError.message


\* the child closed with exit code 0 and output that JSON.parse rejects
DecodeFailure(o) ==
    o.ev = "close" /\ o.exitCode = 0 /\ o.stdout.shape = "invalid"

\* C25: once a subprocess attempt has ended with exit code 0 and output that
\* does not decode, whatever that output contains, the attempt is not retried
\* and the call fails there with an error whose kind is none of
\* Authentication, TemplateNotFound, RateLimit, Timeout, Network.
C25_DecodeFailureSurfacedOnce ==
    (transport = "kernel" /\ Len(labels) >= 1 /\ DecodeFailure(lastRaw)) =>
        /\ labels[Len(labels)] = "nonretryable"
        /\ pc = "threw"
        /\ Len(sleeps) = Len(labels) - 1
        /\ KindOf(outcome.val) \notin
              {"Authentication", "TemplateNotFound", "RateLimit", "Timeout", "Network"}


\* the retry configuration of the scenario: retryAttempts 3 (or left out) and
\* retryDelay 100; backoffMultiplier and maxDelay are not configurable
ScenarioConfig ==
    /\ transport = "http"
    /\ client.retryConfig.maxAttempts = 3
    /\ client.retryConfig.initialDelay = 100
    /\ client.retryConfig.backoffMultiplier = 2

\* attempt k received status 503 with a decodable error body
Received503(k) ==
    /\ attempts[k].by.type = "response" /\ attempts[k].by.status = 503
    /\ attempts[k].by.body.shape = "object"

\* ... whose code is not one that createErrorFromResponse gives a 4xx class
Received503Unclassified(k) ==
    /\ Received503(k)
    /\ attempts[k].by.body.code \notin
          {"INVALID_API_KEY", "TEMPLATE_NOT_FOUND", "INVALID_TEMPLATE_DATA",
           "INVALID_RECIPIENT"}

Received200(k) == attempts[k].by = FetchResponse(200, SuccessBody)

ScenarioSleeps == <<100, 200>>

Range(seq) == {seq[k] : k \in 1..Len(seq)}

\* how often x occurs in a sequence
CountOf(seq, x) == Cardinality({k \in 1..Len(seq) : seq[k] = x})

\* the sendEmail invocation i has returned or thrown
SendDone(i) == sends[i].pc \in {"returned", "threw"}

\* C27: with an onRetry callback, a finished sendEmail call that made k
\* transport attempts has invoked onRetry k-1 times, each time after a failed
\* attempt and right before the next attempt starts.
C27_OnRetryBeforeEveryRetry ==
    \A i \in DOMAIN sends :
        LET ev == sends[i].events IN
        (callbacks.onRetry # "absent" /\ SendDone(i) /\ CountOf(ev, "attempt") >= 1) =>
            /\ CountOf(ev, "onRetry") = CountOf(ev, "attempt") - 1
            /\ \A p \in 1..Len(ev) :
                  ev[p] = "onRetry" =>
                      /\ p > 1 /\ ev[p - 1] = "failed"
                      /\ p < Len(ev) /\ ev[p + 1] = "attempt"


\* the arguments of invocation i passed validateSendEmailInput
PassedValidation(i) ==
    ~validateSendEmailInput(sends[i].input.templateKey, sends[i].input.data,
                            sends[i].input.recipient).raised

\* C28: a finished sendEmail call whose input passed validation has invoked
\* onSendStart once, before anything else; it has invoked onSendSuccess once
\* if it returned and never if it threw, onSendError once if it threw and
\* never if it returned, and never both, also when a callback throws.
C28_OneStartOneVerdict ==
    \A i \in DOMAIN sends :
        LET ev == sends[i].events IN
        (SendDone(i) /\ PassedValidation(i)) =>
            /\ callbacks.onSendStart # "absent" =>
                  CountOf(ev, "onSendStart") = 1 /\ ev[1] = "onSendStart"
            /\ callbacks.onSendSuccess # "absent" =>
                  CountOf(ev, "onSendSuccess") =
                      (IF sends[i].pc = "returned" THEN 1 ELSE 0)
            /\ callbacks.onSendError # "absent" =>
                  CountOf(ev, "onSendError") = (IF sends[i].pc = "threw" THEN 1 ELSE 0)
            /\ ~("onSendSuccess" \in Range(ev) /\ "onSendError" \in Range(ev))

\* the shape constraints on the arguments of sendEmail
ShapeOk(input) ==
    /\ input.templateKey.tag = "string"
    /\ input.templateKey.trimmed > 0 /\ input.templateKey.length <= 100
    /\ input.data.tag = "object" /\ input.data.valueTypes \subseteq {"string"}
    /\ input.recipient.tag = "string"
    /\ isValidEmail(input.recipient.chars) /\ input.recipient.length <= 254

C30_BulkReportsEverySend ==
    (bulk.isArray /\ bulk.length \in 1..BulkLimit) =>
        /\ bulk.pc # "rejected"
        /\ bulk.pc = "resolved" =>
              /\ ~bulk.result.raised
              /\ Len(bulk.result.val) = Len(bulk.emails)
              /\ \A i \in 1..Len(bulk.emails) :
                    LET entry == bulk.result.val[i] IN
                    /\ entry.email = bulk.emails[i].recipient
                    /\ entry.success <=> sends[i].pc = "returned"
                    /\ entry.success =>
                          /\ calls[i].pc = "returned"
                          /\ entry.result = calls[i].outcome.val.data
                    /\ ~entry.success =>
                          /\ sends[i].pc = "threw"
                          /\ InstanceOfHuefyError(entry.error)
                    /\ ~ShapeOk(bulk.emails[i]) =>
                          ~entry.success /\ entry.error.cls = "ValidationError"

C30_Witness ==
    /\ bulk.pc = "resolved" /\ Len(bulk.emails) = 2
    /\ ShapeOk(bulk.emails[1]) /\ ShapeOk(bulk.emails[2])
    /\ bulk.result.val[1].success
    /\ ~bulk.result.val[2].success
    /\ bulk.result.val[2].error.cls = "TimeoutError"
    /\ Len(calls[1].raws) = 2 /\ Len(calls[2].raws) = 2

\* C31: sendBulkEmails invoked with something that is no array, with an empty
\* array or with more than 100 emails fails with a ValidationError; no
\* sendEmail is started, so no transport attempt is made and no callback is
\* invoked.
C31_BadBulkArgumentSendsNothing ==
    (bulk.pc # "idle" /\ (~bulk.isArray \/ bulk.length = 0 \/ bulk.length > 100)) =>
        /\ bulk.pc = "rejected"
        /\ bulk.result.raised
        /\ bulk.result.val.cls = "ValidationError"
        /\ sends = <<>> /\ calls = <<>>

C31_Witness ==
    /\ bulk.pc = "rejected" /\ bulk.isArray /\ bulk.length = 101
    /\ bulk.result.val.code = "VALIDATION_ERROR"
    /\ callbacks.onSendStart = "returns"
    /\ sends = <<>> /\ calls = <<>>

\* the value a client uses for an optional number of its configuration: the
\* default when it is omitted, the supplied number otherwise
SuppliedOr(opt, default) == IF opt = {} THEN default ELSE CHOOSE n \in opt : TRUE

\* C32: a constructed client uses 30000 ms, 3 attempts and 1000 ms where
\* timeout, retryAttempts and retryDelay are omitted, and exactly the supplied
\* value where the caller supplies one (a non-negative timeout or retryDelay,
\* 0 included; a retryAttempts of at least 1).
C32_DefaultsAndOverrides ==
    client.ok =>
        /\ (\A n \in config.timeout : n >= 0) =>
              client.timeout = SuppliedOr(config.timeout, 30000)
        /\ (\A n \in config.retryAttempts : n >= 1) =>
              client.retryConfig.maxAttempts = SuppliedOr(config.retryAttempts, 3)
        /\ (\A n \in config.retryDelay : n >= 0) =>
              client.retryConfig.initialDelay = SuppliedOr(config.retryDelay, 1000)


\* the attempt handed to makeRequest raised a HuefyError inside its try block:
\* the body did not decode, or a non-2xx response carried a JSON object
RaisedInsideAttempt(fo) ==
    /\ fo.type = "response"
    /\ \/ fo.body.shape = "invalid"
       \/ ~ResponseOk(fo.status) /\ fo.body.shape = "object"

\* the HuefyError raised inside the attempt
ErrorInsideAttempt(fo) ==
    IF fo.body.shape = "invalid"
    THEN HuefyError({"Failed to parse response as JSON"}, "INVALID_RESPONSE",
                    fo.status, DUndefined)
    ELSE createErrorFromResponse(fo.body, fo.status).val

\* C33: a HuefyError raised inside an attempt (by createErrorFromResponse or
\* by the JSON decode failure path) leaves makeRequest with the same kind,
\* code, statusCode and details, whatever its message text.
C33_HuefyErrorRethrownAsIs ==
    (pc = "classified" /\ cin.fn = "makeRequest" /\ RaisedInsideAttempt(cin.raw)) =>
        /\ cout.raised
        /\ KindOf(cout.val) = KindOf(ErrorInsideAttempt(cin.raw))
        /\ cout.val.code = ErrorInsideAttempt(cin.raw).code
        /\ cout.val.statusCode = ErrorInsideAttempt(cin.raw).statusCode
        /\ cout.val.details = ErrorInsideAttempt(cin.raw).details


\* C34: in every retry loop a sleep only ever follows an attempt that failed
\* retryably and was not attempt number maxAttempts, so a sleep is always
\* followed by the next attempt; a finished call that made k >= 1 attempts has
\* slept k-1 times.
C34_SleepsOnlyBetweenAttempts ==
    /\ Len(sleeps) <= Len(labels)
    /\ \A j \in 1..Len(sleeps) :
          labels[j] = "retryable" /\ j < client.retryConfig.maxAttempts
    /\ \A j \in 1..Len(labels) :
          (labels[j] # "retryable" \/ j = client.retryConfig.maxAttempts) =>
              Len(sleeps) < j
    /\ (pc \in {"returned", "threw"} /\ exchanges >= 1) =>
          Len(sleeps) = exchanges - 1 /\ Len(labels) = exchanges

C34_Witness ==
    /\ transport = "kernel" /\ pc = "threw"
    /\ exchanges = 3 /\ Len(sleeps) = 2
    /\ labels = <<"retryable", "retryable", "retryable">>

\* C35: a subprocess attempt settles once: after its first settling event
\* ('close', 'error', the stdin write failure or the timer) the attempt stays
\* settled by that same event, and an event that finds its attempt already
\* settled hands the retry loop no second result or error.
C35_SettlesExactlyOnce ==
    [][transport = "kernel" =>
          \A k \in 1..Len(attempts) :
              attempts[k].settled =>
                  /\ attempts'[k].settled
                  /\ attempts'[k].by = attempts[k].by
                  /\ attempts'[k] # attempts[k] => UNCHANGED loopVars]_vars

\* a timer and a 'close' both arrived after the attempt had been settled by
\* the stdin write failure
C35_Witness ==
    /\ transport = "kernel" /\ Len(attempts) >= 1
    /\ attempts[1].settled /\ attempts[1].by.ev = "stdin"
    /\ attempts[1].timeoutId = "late"
    /\ attempts[1].errored
    /\ attempts[1].kernelProcess = "exited"

\* C36: once an HTTP or subprocess attempt has settled, the timeout timer it
\* armed is no longer pending: it was cancelled or it has fired, and it never
\* fires after its attempt is over.
C36_NoTimerOutlivesItsAttempt ==
    transport \in {"http", "kernel"} =>
        \A k \in 1..Len(attempts) :
            attempts[k].settled => attempts[k].timeoutId \in {"cleared", "fired"}


\* the retry loop as a function of the retry configuration and of the labels
\* of the attempts' outcomes alone: the attempts made so far, the delays
\* slept and how the call stands, from attempt number att on
RECURSIVE RetryLoopFrom(_, _, _, _)
RetryLoopFrom(rc, ls, att, slept) ==
    IF att > rc.maxAttempts
    THEN [attempts |-> att - 1, sleeps |-> slept, how |-> "threw"]
    ELSE IF Len(ls) < att
    THEN [attempts |-> att, sleeps |-> slept, how |-> "call"]
    ELSE IF ls[att] = "success"
    THEN [attempts |-> att, sleeps |-> slept, how |-> "returned"]
    ELSE IF att = rc.maxAttempts \/ ls[att] = "nonretryable"
    THEN [attempts |-> att, sleeps |-> slept, how |-> "threw"]
    ELSE RetryLoopFrom(rc, ls, att + 1, Append(slept, BackoffDelay(rc, att)))

RetryLoop(rc, ls) == RetryLoopFrom(rc, ls, 1, <<>>)

\* C37: HttpClient.request, GrpcClient.makeGrpcRequest and
\* KernelClient.executeKernelCommand are one state machine: whichever the
\* transport, the attempts made, the delays slept and the way the call ends
\* are the same function of the retry configuration and of the outcomes'
\* labels (success / retryable / non-retryable by the transport's predicate),
\* and an ended call would have consumed no further outcome.
C37_OneRetryStateMachine ==
    pc \in {"call", "returned", "threw"} =>
        /\ RetryLoop(client.retryConfig, labels) =
              [attempts |-> exchanges, sleeps |-> sleeps, how |-> pc]
        /\ pc # "call" =>
              \A l \in {"success", "retryable", "nonretryable"} :
                  RetryLoop(client.retryConfig, Append(labels, l)) =
                      RetryLoop(client.retryConfig, labels)

C37_Witness ==
    /\ transport = "grpc" /\ pc = "threw"
    /\ labels = <<"retryable", "nonretryable">>
    /\ exchanges = 2 /\ sleeps = <<100>>

\* C38: every attempt of a call sends the request the first attempt sent
\* (same method, target, payload and per-attempt timeout), and the arguments
\* the caller passed are never modified.
C38_EveryAttemptSendsTheSameRequest ==
    /\ [](\A k \in 1..Len(attempts) : attempts[k] = attempts[1])
    /\ [][cin' = cin]_vars

C38_Witness ==
    /\ transport = "http" /\ pc = "returned"
    /\ Len(attempts) = 3
    /\ cin.method = "POST" /\ cin.options = {700}
    /\ attempts[3].payload = Stringify({"email"})
    /\ attempts[3].timeout = 700


\* the error sendEmail threw carries one of the two template codes
TemplateFailure(r) ==
    r.raised /\ r.val.code \in {"TEMPLATE_NOT_FOUND", "INVALID_TEMPLATE_DATA"}

\* C39: validateTemplate never throws and returns a boolean: false exactly
\* when the send failed with code TEMPLATE_NOT_FOUND or INVALID_TEMPLATE_DATA,
\* true when it succeeded or failed with any other code.
C39_ValidateTemplateVerdict ==
    cout # NoOutput =>
        /\ ~cout.raised
        /\ cout.val \in {BooleanValue(TRUE), BooleanValue(FALSE)}
        /\ cout.val = BooleanValue(FALSE) <=> TemplateFailure(sends[1].result)

====
